---- MODULE Spec2Model ----
(***************************************************************************)
(* Workflow graph engine: api/core/workflow/graph_engine/graph_engine.py.  *)
(*                                                                         *)
(* GraphEngine.run() is the facade generator, _run() the traversal         *)
(* generator (one frame for the top-level traversal "main" and one per     *)
(* parallel worker thread), _run_parallel_node() the worker body and       *)
(* _run_node() the node runner.  Every q.put, every yield to the caller    *)
(* and every read or write of the shared graph_runtime_state is a step of  *)
(* its own, so that the worker threads interleave as Python threads do.    *)
(***************************************************************************)
EXTENDS Integers, Sequences, FiniteSets, TLC

(* ----------------------------- bounds --------------------------------- *)

\* the wall-clock limit the engine is constructed with, in seconds
MaxExecutionTime == 1
\* the step limits the engine is constructed with
SmallStepLimit == 2
LargeStepLimit == 8

(* ----------------------------- values --------------------------------- *)

None == "None"

\* Python strings that are edited (concatenated, stripped) are sequences of
\* characters; strings that are only compared are TLA+ strings.
NL == "\n"
Whitespace == {" ", NL}
S_foo == <<"f", "o", "o">>
S_bar == <<"b", "a", "r">>
S_hi == <<"h", "i">>
S_empty == <<>>

\* str.strip(): drop leading and trailing whitespace
RECURSIVE lstrip(_)
lstrip(s) ==
    IF s = <<>> THEN <<>>
    ELSE IF Head(s) \in Whitespace THEN lstrip(Tail(s)) ELSE s

RECURSIVE rstrip(_)
rstrip(s) ==
    IF s = <<>> THEN <<>>
    ELSE IF s[Len(s)] \in Whitespace THEN rstrip(SubSeq(s, 1, Len(s) - 1)) ELSE s

strip(s) == rstrip(lstrip(s))

\* dict helpers: a dict is a function from its keys
EmptyDict == [k \in {} |-> <<>>]
DictSet(d, k, v) == [x \in (DOMAIN d) \cup {k} |-> IF x = k THEN v ELSE d[x]]
DictGet(d, k, default) == IF k \in DOMAIN d THEN d[k] ELSE default

\* A variable value is a leaf (a string) or a dict of variable values; the tag
\* is what isinstance(value, dict) reads.
S_one == <<"1">>
Leaf(x) == [is_dict |-> FALSE, leaf |-> x, items |-> <<>>]
Dict(d) == [is_dict |-> TRUE, leaf |-> <<>>, items |-> d]
NoValue == [is_dict |-> FALSE, leaf |-> <<"N", "o", "n", "e">>, items |-> <<>>]

\* the variable pool maps a selector (node id, then keys) to the value added
\* there last
EmptyPool == [selector \in {} |-> NoValue]
pool_add(pool, selector, value) ==
    [x \in (DOMAIN pool) \cup {selector} |-> IF x = selector THEN value ELSE pool[x]]
pool_get(pool, selector) == IF selector \in DOMAIN pool THEN pool[selector] ELSE NoValue

\* _append_variables_recursively that adds the value and not what is inside it
append_variable_only(pool, node_id, variable_key_list, variable_value) ==
    pool_add(pool, <<node_id>> \o variable_key_list, variable_value)

\* _append_variables_recursively: add the value at [node_id] + key list, then
\* the items of a dict value below it.  append_items is its for loop over the
\* items that are left; the order of the items does not show in the result,
\* their selectors being all different.
RECURSIVE _append_variables_recursively(_, _, _, _), append_items(_, _, _, _, _)
_append_variables_recursively(pool, node_id, variable_key_list, variable_value) ==
    LET added == pool_add(pool, <<node_id>> \o variable_key_list, variable_value)
    IN  IF variable_value.is_dict
        THEN append_items(added, node_id, variable_key_list, variable_value.items,
                          DOMAIN variable_value.items)
        ELSE added

append_items(pool, node_id, variable_key_list, items, keys) ==
    IF keys = {} THEN pool
    ELSE LET key == CHOOSE k \in keys : TRUE
         IN  append_items(_append_variables_recursively(pool, node_id,
                                                        variable_key_list \o <<key>>, items[key]),
                          node_id, variable_key_list, items, keys \ {key})

\* for variable_key, variable_value in run_result.outputs.items(): append
append_outputs(pool, node_id, outs) == append_items(pool, node_id, <<>>, outs, DOMAIN outs)

\* the outputs of the graphs below hold strings only
leaves(outs) == [k \in DOMAIN outs |-> Leaf(outs[k])]

\* What node_instance.run() does: it completes with a SUCCEEDED or a FAILED
\* run result (error: run_result.error), raises GenerateTaskStoppedException
\* ("stopped"), or raises another exception (error: str(e)).
Succeeded == [kind |-> "succeeded", error |-> None]
Stopped == [kind |-> "stopped", error |-> None]
Failed(error) == [kind |-> "failed", error |-> error]
Raises(error) == [kind |-> "raise", error |-> error]
Outcomes == {Succeeded, Stopped, Failed("boom"), Failed(""), Raises("boom"), Raises("")}

(* ----------------------------- graphs --------------------------------- *)

Edge(target, cond) == [target_node_id |-> target, run_condition |-> cond]

\* S1: Start -> LLM -> End, End.outputs = {"text": "hi"}
GraphS1 ==
    [ name |-> "S1",
      root_node_id |-> "start",
      node_type |-> [n \in {"start", "llm", "end"} |->
                       CASE n = "start" -> "start"
                         [] n = "end" -> "end"
                         [] OTHER -> "llm"],
      edge_mapping |-> [n \in {"start", "llm"} |->
                       CASE n = "start" -> <<Edge("llm", FALSE)>>
                         [] OTHER -> <<Edge("end", FALSE)>>],
      node_parallel_mapping |-> [n \in {} |-> None],
      parallel_mapping |-> [p \in {} |-> None],
      node_outputs |-> [n \in {"start", "llm", "end"} |->
                       CASE n = "end" -> [k \in {"text"} |-> S_hi]
                         [] OTHER -> EmptyDict],
      node_tokens |-> [n \in {"start", "llm", "end"} |-> IF n = "llm" THEN 1 ELSE 0],
      node_behaviours |-> [n \in {"start", "llm", "end"} |-> Outcomes] ]

\* S2: Start -> Answer1 -> Answer2 -> End
GraphS2 ==
    [ name |-> "S2",
      root_node_id |-> "start",
      node_type |-> [n \in {"start", "answer1", "answer2", "end"} |->
                       CASE n = "start" -> "start"
                         [] n = "end" -> "end"
                         [] OTHER -> "answer"],
      edge_mapping |-> [n \in {"start", "answer1", "answer2"} |->
                       CASE n = "start" -> <<Edge("answer1", FALSE)>>
                         [] n = "answer1" -> <<Edge("answer2", FALSE)>>
                         [] OTHER -> <<Edge("end", FALSE)>>],
      node_parallel_mapping |-> [n \in {} |-> None],
      parallel_mapping |-> [p \in {} |-> None],
      node_outputs |-> [n \in {"start", "answer1", "answer2", "end"} |->
                       CASE n = "answer1" -> [k \in {"answer"} |-> S_foo]
                         [] n = "answer2" -> [k \in {"answer"} |-> S_bar]
                         [] OTHER -> EmptyDict],
      node_tokens |-> [n \in {"start", "answer1", "answer2", "end"} |-> 0],
      node_behaviours |-> [n \in {"start", "answer1", "answer2", "end"} |-> Outcomes] ]

\* S5: five sequential nodes
GraphS5 ==
    [ name |-> "S5",
      root_node_id |-> "start",
      node_type |-> [n \in {"start", "llm1", "llm2", "llm3", "end"} |->
                       CASE n = "start" -> "start"
                         [] n = "end" -> "end"
                         [] OTHER -> "llm"],
      edge_mapping |-> [n \in {"start", "llm1", "llm2", "llm3"} |->
                       CASE n = "start" -> <<Edge("llm1", FALSE)>>
                         [] n = "llm1" -> <<Edge("llm2", FALSE)>>
                         [] n = "llm2" -> <<Edge("llm3", FALSE)>>
                         [] OTHER -> <<Edge("end", FALSE)>>],
      node_parallel_mapping |-> [n \in {} |-> None],
      parallel_mapping |-> [p \in {} |-> None],
      node_outputs |-> [n \in {"start", "llm1", "llm2", "llm3", "end"} |->
                       CASE n = "end" -> [k \in {"text"} |-> S_hi]
                         [] OTHER -> EmptyDict],
      node_tokens |-> [n \in {"start", "llm1", "llm2", "llm3", "end"} |-> IF n \in {"llm1", "llm2", "llm3"} THEN 1 ELSE 0],
      node_behaviours |-> [n \in {"start", "llm1", "llm2", "llm3", "end"} |-> Outcomes] ]

\* S4/S6: Start -> {A, B} -> Join -> End, {A, B} the parallel group P
GraphS4 ==
    [ name |-> "S4",
      root_node_id |-> "start",
      node_type |-> [n \in {"start", "a", "b", "join", "end"} |->
                       CASE n = "start" -> "start"
                         [] n = "end" -> "end"
                         [] OTHER -> "llm"],
      edge_mapping |-> [n \in {"start", "a", "b", "join"} |->
                       CASE n = "start" -> <<Edge("a", FALSE), Edge("b", FALSE)>>
                         [] n = "join" -> <<Edge("end", FALSE)>>
                         [] OTHER -> <<Edge("join", FALSE)>>],
      node_parallel_mapping |-> [n \in {"a", "b"} |-> "P"],
      parallel_mapping |-> [p \in {"P"} |-> [end_to_node_id |-> "join"]],
      node_outputs |-> [n \in {"start", "a", "b", "join", "end"} |->
                       CASE n = "end" -> [k \in {"text"} |-> S_hi]
                         [] n = "b" -> [k \in {"text"} |-> S_foo]
                         [] OTHER -> EmptyDict],
      node_tokens |-> [n \in {"start", "a", "b", "join", "end"} |-> CASE n = "a" -> 1 [] n = "b" -> 2 [] OTHER -> 0],
      node_behaviours |-> [n \in {"start", "a", "b", "join", "end"} |->
                       CASE n = "a" -> {Succeeded, Failed("boom"), Stopped}
                         [] n = "b" -> {Succeeded, Raises("boom"), Failed("")}
                         [] OTHER -> {Succeeded}] ]

\* nested fan-out: Start -> {A, B} (group P, joined at End); A -> {C, D}
\* (group Q inside branch A, no join node).  B and D have no node config.
GraphNested ==
    [ name |-> "Nested",
      root_node_id |-> "start",
      node_type |-> [n \in {"start", "a", "c", "end"} |->
                       CASE n = "start" -> "start"
                         [] n = "end" -> "end"
                         [] OTHER -> "llm"],
      edge_mapping |-> [n \in {"start", "a"} |->
                       CASE n = "start" -> <<Edge("a", FALSE), Edge("b", FALSE)>>
                         [] OTHER -> <<Edge("c", FALSE), Edge("d", FALSE)>>],
      node_parallel_mapping |-> [n \in {"a", "b", "c", "d"} |->
                       IF n \in {"a", "b"} THEN "P" ELSE "Q"],
      parallel_mapping |-> [p \in {"P", "Q"} |->
                       [end_to_node_id |-> IF p = "P" THEN "end" ELSE None]],
      node_outputs |-> [n \in {"start", "a", "c", "end"} |-> EmptyDict],
      node_tokens |-> [n \in {"start", "a", "c", "end"} |-> 0],
      node_behaviours |-> [n \in {"start", "a", "c", "end"} |->
                       CASE n = "a" -> {Succeeded, Stopped}
                         [] n = "c" -> {Succeeded, Raises("boom")}
                         [] OTHER -> {Succeeded}] ]

\* S3: Start has the edges (cond A) -> N1, (no condition) -> N3 and
\* (cond B) -> N2, in that order; N1 -> End under a condition of its own;
\* N2 -> End; N3 -> End
GraphS3 ==
    [ name |-> "S3",
      root_node_id |-> "start",
      node_type |-> [n \in {"start", "n1", "n2", "n3", "end"} |->
                       CASE n = "start" -> "start"
                         [] n = "end" -> "end"
                         [] OTHER -> "llm"],
      edge_mapping |-> [n \in {"start", "n1", "n2", "n3"} |->
                       CASE n = "start" -> <<Edge("n1", TRUE), Edge("n3", FALSE), Edge("n2", TRUE)>>
                         [] n = "n1" -> <<Edge("end", TRUE)>>
                         [] OTHER -> <<Edge("end", FALSE)>>],
      node_parallel_mapping |-> [n \in {} |-> None],
      parallel_mapping |-> [p \in {} |-> None],
      node_outputs |-> [n \in {"start", "n1", "n2", "n3", "end"} |->
                       CASE n = "end" -> [k \in {"text"} |-> S_hi]
                         [] OTHER -> EmptyDict],
      node_tokens |-> [n \in {"start", "n1", "n2", "n3", "end"} |-> IF n = "n1" THEN 1 ELSE 0],
      node_behaviours |-> [n \in {"start", "n1", "n2", "n3", "end"} |->
                       CASE n = "n2" -> {Succeeded, Failed("boom")}
                         [] OTHER -> {Succeeded}] ]

\* a branch of two nodes: Start -> {A, B} (group P, joined at End); A -> A2
\* inside the group; A2 -> End; B -> End
GraphChain ==
    [ name |-> "Chain",
      root_node_id |-> "start",
      node_type |-> [n \in {"start", "a", "a2", "b", "end"} |->
                       CASE n = "start" -> "start"
                         [] n = "end" -> "end"
                         [] OTHER -> "llm"],
      edge_mapping |-> [n \in {"start", "a", "a2", "b"} |->
                       CASE n = "start" -> <<Edge("a", FALSE), Edge("b", FALSE)>>
                         [] n = "a" -> <<Edge("a2", FALSE)>>
                         [] OTHER -> <<Edge("end", FALSE)>>],
      node_parallel_mapping |-> [n \in {"a", "a2", "b"} |-> "P"],
      parallel_mapping |-> [p \in {"P"} |-> [end_to_node_id |-> "end"]],
      node_outputs |-> [n \in {"start", "a", "a2", "b", "end"} |-> EmptyDict],
      node_tokens |-> [n \in {"start", "a", "a2", "b", "end"} |-> 0],
      node_behaviours |-> [n \in {"start", "a", "a2", "b", "end"} |->
                       CASE n = "a" -> {Succeeded, Stopped}
                         [] OTHER -> {Succeeded}] ]

\* a fan-out inside a fan-out, two nodes below the root: Start -> S2 -> {A, B}
\* (group P), A -> {C, D} (group Q), no join nodes.  B, C and D have no node
\* config.
GraphDeep ==
    [ name |-> "Deep",
      root_node_id |-> "start",
      node_type |-> [n \in {"start", "s2", "a"} |-> IF n = "start" THEN "start" ELSE "llm"],
      edge_mapping |-> [n \in {"start", "s2", "a"} |->
                       CASE n = "start" -> <<Edge("s2", FALSE)>>
                         [] n = "s2" -> <<Edge("a", FALSE), Edge("b", FALSE)>>
                         [] OTHER -> <<Edge("c", FALSE), Edge("d", FALSE)>>],
      node_parallel_mapping |-> [n \in {"a", "b", "c", "d"} |->
                       IF n \in {"a", "b"} THEN "P" ELSE "Q"],
      parallel_mapping |-> [p \in {"P", "Q"} |-> [end_to_node_id |-> None]],
      node_outputs |-> [n \in {"start", "s2", "a"} |-> EmptyDict],
      node_tokens |-> [n \in {"start", "s2", "a"} |-> 0],
      node_behaviours |-> [n \in {"start", "s2", "a"} |-> {Succeeded}] ]

\* graphs that cannot be run to the end: Start -> X with no config for X;
\* Start -> X with X of a type no node class is registered for; Start -> {A, B}
\* with the first target A in no parallel group; Start -> {A, B} in a group P
\* that the graph does not hold
BrokenGraph(name, targets, types, node_parallel, parallels) ==
    [ name |-> name,
      root_node_id |-> "start",
      node_type |-> types,
      edge_mapping |-> [n \in {"start"} |-> targets],
      node_parallel_mapping |-> node_parallel,
      parallel_mapping |-> parallels,
      node_outputs |-> [n \in DOMAIN types |-> EmptyDict],
      node_tokens |-> [n \in DOMAIN types |-> 0],
      node_behaviours |-> [n \in DOMAIN types |-> {Succeeded}] ]

GraphNoConfig ==
    BrokenGraph("NoConfig", <<Edge("x", FALSE)>>, [n \in {"start"} |-> "start"],
                [n \in {} |-> None], [p \in {} |-> None])
GraphNoClass ==
    BrokenGraph("NoClass", <<Edge("x", FALSE)>>,
                [n \in {"start", "x"} |-> IF n = "start" THEN "start" ELSE "ghost"],
                [n \in {} |-> None], [p \in {} |-> None])
GraphNoParallel ==
    BrokenGraph("NoParallel", <<Edge("a", FALSE), Edge("b", FALSE)>>,
                [n \in {"start", "a", "b"} |-> IF n = "start" THEN "start" ELSE "llm"],
                [n \in {"b"} |-> "P"], [p \in {"P"} |-> [end_to_node_id |-> None]])
GraphNoGroup ==
    BrokenGraph("NoGroup", <<Edge("a", FALSE), Edge("b", FALSE)>>,
                [n \in {"start", "a", "b"} |-> IF n = "start" THEN "start" ELSE "llm"],
                [n \in {"a", "b"} |-> "P"], [p \in {} |-> None])
BrokenGraphs == {GraphNoConfig, GraphNoClass, GraphNoParallel, GraphNoGroup}

\* a path that ends at a node without outgoing edges: Start -> M
GraphOpen ==
    [ name |-> "Open",
      root_node_id |-> "start",
      node_type |-> [n \in {"start", "m"} |-> IF n = "start" THEN "start" ELSE "answer"],
      edge_mapping |-> [n \in {"start"} |-> <<Edge("m", FALSE)>>],
      node_parallel_mapping |-> [n \in {} |-> None],
      parallel_mapping |-> [p \in {} |-> None],
      node_outputs |-> [n \in {"start", "m"} |->
                       IF n = "m" THEN [k \in {"answer"} |-> S_foo] ELSE EmptyDict],
      node_tokens |-> [n \in {"start", "m"} |-> 0],
      node_behaviours |-> [n \in {"start", "m"} |->
                       IF n = "m" THEN {Succeeded, Failed("boom")} ELSE {Succeeded}] ]

\* a fan-out without join node: Start -> {A, B} (group P), nothing after it
GraphNoJoin ==
    [ name |-> "NoJoin",
      root_node_id |-> "start",
      node_type |-> [n \in {"start", "a", "b"} |-> IF n = "start" THEN "start" ELSE "llm"],
      edge_mapping |-> [n \in {"start"} |-> <<Edge("a", FALSE), Edge("b", FALSE)>>],
      node_parallel_mapping |-> [n \in {"a", "b"} |-> "P"],
      parallel_mapping |-> [p \in {"P"} |-> [end_to_node_id |-> None]],
      node_outputs |-> [n \in {"start", "a", "b"} |-> EmptyDict],
      node_tokens |-> [n \in {"start", "a", "b"} |-> 0],
      node_behaviours |-> [n \in {"start", "a", "b"} |->
                       IF n = "a" THEN {Succeeded, Stopped} ELSE {Succeeded}] ]

\* nodes that yield stream items: Start -> {A, B} (group P, no join node); the
\* generator of Start yields a RunStreamChunkEvent, that of A a
\* RunStreamChunkEvent and that of B a RunRetrieverResourceEvent, each around
\* its RunCompletedEvent
GraphStream ==
    [ name |-> "Stream",
      root_node_id |-> "start",
      node_type |-> [n \in {"start", "a", "b"} |-> IF n = "start" THEN "start" ELSE "llm"],
      edge_mapping |-> [n \in {"start"} |-> <<Edge("a", FALSE), Edge("b", FALSE)>>],
      node_parallel_mapping |-> [n \in {"a", "b"} |-> "P"],
      parallel_mapping |-> [p \in {"P"} |-> [end_to_node_id |-> None]],
      node_outputs |-> [n \in {"start", "a", "b"} |-> EmptyDict],
      node_tokens |-> [n \in {"start", "a", "b"} |-> 0],
      node_items |-> [n \in {"start", "a", "b"} |->
                       IF n = "b" THEN <<"NodeRunRetrieverResource">>
                       ELSE <<"NodeRunStreamChunk">>],
      node_behaviours |-> [n \in {"start", "a", "b"} |->
                       CASE n = "a" -> {Succeeded, Failed("boom"), Raises("boom")}
                         [] n = "b" -> {Succeeded, Stopped}
                         [] OTHER -> {Succeeded}] ]

Graphs == {GraphS1, GraphS2, GraphS3, GraphS5, GraphS4}

\* one traversal frame for run()'s _run() call and one per worker thread; a
\* worker is named by the node it starts at
Threads ==
    {"main"} \cup UNION {DOMAIN g.node_parallel_mapping : g \in Graphs \cup {GraphNested, GraphChain}}

(* ----------------------------- events --------------------------------- *)

NoResult == [status |-> None, outputs |-> EmptyDict]

\* RouteNodeState as created by create_node_state; the per-invocation id is
\* unique: the traversal and the node it instantiates name it
create_node_state(t, node_id) ==
    [ id |-> <<t, node_id>>, node_id |-> node_id, status |-> "running",
      index |-> 0, failed_reason |-> None, node_run_result |-> NoResult ]

NoRouteState ==
    [ id |-> <<None, None>>, node_id |-> None, status |-> None,
      index |-> 0, failed_reason |-> None, node_run_result |-> NoResult ]

Event(type, route_node_state, node_type, parallel_id, parallel_start_node_id, error, outs) ==
    [ type |-> type, node_id |-> route_node_state.node_id, node_type |-> node_type,
      route_node_state |-> route_node_state,
      parallel_id |-> parallel_id, parallel_start_node_id |-> parallel_start_node_id,
      error |-> error, outputs |-> outs ]

GraphRunStartedEvent == Event("GraphRunStarted", NoRouteState, None, None, None, None, EmptyDict)
GraphRunSucceededEvent(outs) == Event("GraphRunSucceeded", NoRouteState, None, None, None, None, outs)
GraphRunFailedEvent(error) == Event("GraphRunFailed", NoRouteState, None, None, None, error, EmptyDict)

ParallelBranchRunStartedEvent(parallel_id, parallel_start_node_id) ==
    Event("ParallelBranchRunStarted", NoRouteState, None, parallel_id, parallel_start_node_id,
          None, EmptyDict)
ParallelBranchRunSucceededEvent(parallel_id, parallel_start_node_id) ==
    Event("ParallelBranchRunSucceeded", NoRouteState, None, parallel_id, parallel_start_node_id,
          None, EmptyDict)
ParallelBranchRunFailedEvent(parallel_id, parallel_start_node_id, error) ==
    Event("ParallelBranchRunFailed", NoRouteState, None, parallel_id, parallel_start_node_id,
          error, EmptyDict)

\* the queue's end-of-stream marker, q.put(None)
Sentinel == Event(None, NoRouteState, None, None, None, None, EmptyDict)
\* "this step yields nothing"
NoEvent == Event("-", NoRouteState, None, None, None, None, EmptyDict)

NoExc == [kind |-> None, error |-> None]
GraphRunFailedError(error) == [kind |-> "GraphRunFailedError", error |-> error]
Exception(error) == [kind |-> "Exception", error |-> error]

(* ----------------------------- state ---------------------------------- *)

VARIABLES
    graph,                \* self.graph
    max_execution_steps,  \* self.max_execution_steps
    max_execution_time,   \* self.max_execution_time
    clock,                \* time.perf_counter() - start_at
    node_run_steps,       \* graph_runtime_state.node_run_steps
    outputs,              \* graph_runtime_state.outputs
    total_tokens,         \* graph_runtime_state.total_tokens
    variable_pool,        \* graph_runtime_state.variable_pool: selector -> value
    run_pc,               \* position of run(): "init", "running", "done"
    emitted,              \* the events run() has yielded to its caller
    frames,               \* the locals of each _run() traversal and its position
    yielded               \* per worker, the events it has put on its parent's queue

vars == <<graph, max_execution_steps, max_execution_time, clock, node_run_steps,
          outputs, total_tokens, variable_pool, run_pc, emitted, frames, yielded>>

IdleFrame ==
    [ pc |-> "idle", next_node_id |-> None, in_parallel_id |-> None,
      parallel_start_node_id |-> None, route_node_state |-> NoRouteState,
      steps_read |-> 0, tokens_read |-> 0, q |-> <<>>, threads |-> <<>>, succeeded_count |-> 0,
      parallel_id |-> None, exc |-> NoExc, parent |-> None,
      \* what this traversal has taken from outside so far: the outcome of each
      \* node it ran and the results of the run conditions it checked
      ran |-> <<>>, checked |-> <<>> ]

Init ==
    /\ graph \in Graphs
    /\ max_execution_steps \in {SmallStepLimit, LargeStepLimit}
    /\ max_execution_time = MaxExecutionTime
    /\ clock = 0
    /\ node_run_steps = 0
    /\ outputs = EmptyDict
    /\ total_tokens = 0
    /\ variable_pool = EmptyPool
    /\ run_pc = "init"
    /\ emitted = <<>>
    /\ frames = [t \in Threads |-> IdleFrame]
    /\ yielded = [t \in Threads |-> <<>>]

\* time passes the wall-clock limit
Tick ==
    /\ clock <= max_execution_time
    /\ clock' = max_execution_time + 1
    /\ UNCHANGED <<graph, max_execution_steps, max_execution_time, node_run_steps,
                   outputs, total_tokens, variable_pool, run_pc, emitted, frames, yielded>>

(* ----------------------------- facade: run() --------------------------- *)

\* stream_processor.process(): the answer/end stream processors pass every
\* event that is not a stream chunk through unchanged
process(item) == item

\* failed_reason_or_unknown without the fallback text
failed_reason_as_is(failed_reason) == failed_reason

\* item.route_node_state.failed_reason or 'Unknown error.'
failed_reason_or_unknown(failed_reason) ==
    IF failed_reason = None \/ failed_reason = "" THEN "Unknown error." ELSE failed_reason

\* result_outputs that never finds outputs
result_outputs_none(route_node_state) == EmptyDict

\* node_run_result.outputs if node_run_result and node_run_result.outputs else {}
result_outputs(route_node_state) ==
    IF route_node_state.node_run_result # NoResult
       /\ route_node_state.node_run_result.outputs # EmptyDict
    THEN route_node_state.node_run_result.outputs
    ELSE EmptyDict

\* outputs["answer"] += "\n" + answer; outputs["answer"] = outputs["answer"].strip()
append_answer(outs, route_node_state) ==
    LET base == IF "answer" \in DOMAIN outs THEN outs ELSE DictSet(outs, "answer", S_empty)
        answer == DictGet(result_outputs(route_node_state), "answer", S_empty)
    IN  DictSet(base, "answer", strip(base["answer"] \o <<NL>> \o answer))

\* the outputs after the facade has seen a NodeRunSucceeded item
outputs_on_succeeded(outs, item) ==
    IF item.node_type = "end" THEN result_outputs(item.route_node_state)
    ELSE IF item.node_type = "answer" THEN append_answer(outs, item.route_node_state)
    ELSE outs

\* ends_run that lets a failed node pass
ends_run_never(item) == FALSE

\* whether run() ends (yields GraphRunFailed and returns) after this item
ends_run(item) == item.type = "NodeRunFailed"

\* on_item that takes the outputs of a failed End or Answer node as well
on_item_failed_outputs(item, outs) ==
    IF item.type = "NodeRunFailed"
    THEN [ events |-> <<item, GraphRunFailedEvent(
                         IF item.route_node_state.failed_reason \in {None, ""}
                         THEN "Unknown error." ELSE item.route_node_state.failed_reason)>>,
           outputs |-> outputs_on_succeeded(outs, item), returned |-> TRUE ]
    ELSE IF item.type = "NodeRunSucceeded"
    THEN [ events |-> <<item>>, outputs |-> outputs_on_succeeded(outs, item),
           returned |-> FALSE ]
    ELSE [ events |-> <<item>>, outputs |-> outs, returned |-> FALSE ]

\* on_item without the return that follows the GraphRunFailed event
on_item_no_return(item, outs) ==
    IF item.type = "NodeRunFailed"
    THEN [ events |-> <<item, GraphRunFailedEvent(
                         IF item.route_node_state.failed_reason \in {None, ""}
                         THEN "Unknown error." ELSE item.route_node_state.failed_reason)>>,
           outputs |-> outs, returned |-> FALSE ]
    ELSE [ events |-> <<item>>, outputs |-> outs, returned |-> FALSE ]

\* the body of "for item in generator": what is yielded to the caller, the
\* outputs afterwards and whether run() has returned
on_item(item, outs) ==
    IF ends_run(item)
    THEN [ events |-> <<item, GraphRunFailedEvent(
                         failed_reason_or_unknown(item.route_node_state.failed_reason))>>,
           outputs |-> outs, returned |-> TRUE ]
    ELSE IF item.type = "NodeRunSucceeded"
    THEN [ events |-> <<item>>, outputs |-> outputs_on_succeeded(outs, item),
           returned |-> FALSE ]
    ELSE [ events |-> <<item>>, outputs |-> outs, returned |-> FALSE ]

(* ----------------------------- queue ---------------------------------- *)

\* q_put that puts the event before the ones waiting
q_put_front(q, event) == <<event>> \o q

q_put(q, event) == Append(q, event)
\* q_get taking the newest element
q_get_lifo(q) == [event |-> q[Len(q)], rest |-> SubSeq(q, 1, Len(q) - 1)]

\* q.get() on a non-empty queue: the oldest element
q_get(q) == [event |-> Head(q), rest |-> Tail(q)]

(* ----------------------------- yielding ------------------------------- *)

\* Traversal t moves to frame f and yields event (NoEvent: nothing) out of its
\* _run() generator: the top-level traversal yields to run(), which handles the
\* item at once; a worker's item is put on the queue of the traversal that
\* spawned it (for item in generator: q.put(item)).
Step(t, f, event) ==
    IF event = NoEvent
    THEN /\ frames' = [frames EXCEPT ![t] = f]
         /\ UNCHANGED <<emitted, outputs, run_pc, yielded>>
    ELSE IF t = "main"
    THEN LET r == on_item(process(event), outputs) IN
         /\ emitted' = emitted \o r.events
         /\ outputs' = r.outputs
         /\ run_pc' = IF r.returned THEN "done" ELSE run_pc
         /\ frames' = [frames EXCEPT ![t] = IF r.returned THEN [f EXCEPT !.pc = "closed"] ELSE f]
         /\ UNCHANGED yielded
    ELSE /\ frames' = [frames EXCEPT ![t] = f,
                                     ![f.parent].q = q_put(@, event)]
         /\ yielded' = [yielded EXCEPT ![t] = Append(@, event)]
         /\ UNCHANGED <<emitted, outputs, run_pc>>

\* run(): yield GraphRunStartedEvent(), then start pulling _run(root_node_id)
RunStart ==
    /\ run_pc = "init"
    /\ run_pc' = "running"
    /\ emitted' = <<GraphRunStartedEvent>>
    /\ frames' = [frames EXCEPT !["main"] =
                     [@ EXCEPT !.pc = "loop", !.next_node_id = graph.root_node_id]]
    /\ UNCHANGED <<graph, max_execution_steps, max_execution_time, clock,
                   node_run_steps, outputs, total_tokens, variable_pool, yielded>>

(* ----------------------------- traversal: _run() ---------------------- *)

\* MaxStepsError that names another number than the limit
MaxStepsError_other(max_steps) == "Max steps " \o ToString(max_steps + 1) \o " reached."

MaxStepsError(max_steps) == "Max steps " \o ToString(max_steps) \o " reached."
MaxTimeError(max_time) == "Max execution time " \o ToString(max_time) \o "s reached."

\* if self.graph_runtime_state.node_run_steps > self.max_execution_steps
max_steps_reached(steps, max_steps) == steps > max_steps

\* time.perf_counter() - start_at > max_execution_time
_is_timed_out(elapsed, max_time) == elapsed > max_time

\* the node types a node class is registered for
node_classes == {"start", "end", "answer", "llm"}

\* has_node_cls finding a class for every type
has_node_cls_any(node_type) == TRUE

\* node_cls = node_classes.get(node_type)
has_node_cls(node_type) == node_type \in node_classes

\* top of the while loop: the two limit checks, then the route node state and
\* the node instance of next_node_id
LoopCheck(t) ==
    /\ frames[t].pc = "loop"
    /\ LET f == frames[t] IN
         IF max_steps_reached(node_run_steps, max_execution_steps)
         THEN Step(t, [f EXCEPT !.pc = "raise",
                              !.exc = GraphRunFailedError(MaxStepsError(max_execution_steps))],
                   NoEvent)
         ELSE IF _is_timed_out(clock, max_execution_time)
                 THEN Step(t, [f EXCEPT !.pc = "raise",
                                        !.exc = GraphRunFailedError(MaxTimeError(max_execution_time))],
                           NoEvent)
                 ELSE IF f.next_node_id \notin DOMAIN graph.node_type
                 THEN Step(t, [f EXCEPT !.pc = "raise",
                                        !.exc = GraphRunFailedError(
                                            "Node " \o f.next_node_id \o " config not found.")],
                           NoEvent)
                 ELSE IF ~has_node_cls(graph.node_type[f.next_node_id])
                 THEN Step(t, [f EXCEPT !.pc = "raise",
                                        !.route_node_state = create_node_state(t, f.next_node_id),
                                        !.exc = GraphRunFailedError(
                                            "Node " \o f.next_node_id \o " type "
                                            \o graph.node_type[f.next_node_id] \o " not found.")],
                           NoEvent)
                 ELSE Step(t, [f EXCEPT !.pc = "started",
                                        !.route_node_state = create_node_state(t, f.next_node_id)],
                           NoEvent)
    /\ UNCHANGED <<graph, max_execution_steps, max_execution_time, clock, node_run_steps,
                   total_tokens, variable_pool>>

\* _run_node's first item, NodeRunStarted, reaches _run:
\* node_run_steps += 1 reads the counter ...
ReadSteps(t) ==
    /\ frames[t].pc = "started"
    /\ Step(t, [frames[t] EXCEPT !.pc = "add", !.steps_read = node_run_steps], NoEvent)
    /\ UNCHANGED <<graph, max_execution_steps, max_execution_time, clock, node_run_steps,
                   total_tokens, variable_pool>>

\* WriteSteps of a worker that stops once run() has returned
WriteSteps_unless_ended(t) ==
    /\ frames[t].pc = "add"
    /\ run_pc # "done"
    /\ node_run_steps' = frames[t].steps_read + 1
    /\ Step(t, [frames[t] EXCEPT !.pc = "index"], NoEvent)
    /\ UNCHANGED <<graph, max_execution_steps, max_execution_time, clock,
                   total_tokens, variable_pool>>

\* ... and writes it back, one more
WriteSteps(t) ==
    /\ frames[t].pc = "add"
    /\ node_run_steps' = frames[t].steps_read + 1
    /\ Step(t, [frames[t] EXCEPT !.pc = "index"], NoEvent)
    /\ UNCHANGED <<graph, max_execution_steps, max_execution_time, clock,
                   total_tokens, variable_pool>>

\* item.route_node_state.index = self.graph_runtime_state.node_run_steps
SetIndex(t) ==
    /\ frames[t].pc = "index"
    /\ Step(t, [frames[t] EXCEPT !.pc = "yield_started",
                                 !.route_node_state.index = node_run_steps], NoEvent)
    /\ UNCHANGED <<graph, max_execution_steps, max_execution_time, clock, node_run_steps,
                   total_tokens, variable_pool>>

\* NodeEvent that leaves the parallel tags out of the stream events
NodeEvent_untagged_stream(type, f, error) ==
    Event(type, f.route_node_state, graph.node_type[f.route_node_state.node_id],
          IF type \in {"NodeRunStreamChunk", "NodeRunRetrieverResource"}
          THEN None ELSE f.in_parallel_id,
          IF type \in {"NodeRunStreamChunk", "NodeRunRetrieverResource"}
          THEN None ELSE f.parallel_start_node_id,
          error, EmptyDict)

\* NodeEvent that leaves the route node state out of the started event
NodeEvent_no_state(type, f, error) ==
    Event(type, IF type = "NodeRunStarted" THEN NoRouteState ELSE f.route_node_state,
          graph.node_type[f.route_node_state.node_id],
          f.in_parallel_id, f.parallel_start_node_id, error, EmptyDict)

NodeEvent(type, f, error) ==
    Event(type, f.route_node_state, graph.node_type[f.route_node_state.node_id],
          f.in_parallel_id, f.parallel_start_node_id, error, EmptyDict)

\* yield item (the NodeRunStarted event)
YieldStarted(t) ==
    /\ frames[t].pc = "yield_started"
    /\ Step(t, [frames[t] EXCEPT !.pc = "node"], NodeEvent("NodeRunStarted", frames[t], None))
    /\ UNCHANGED <<graph, max_execution_steps, max_execution_time, clock, node_run_steps,
                   total_tokens, variable_pool>>

(* ----------------------------- node runner: _run_node() --------------- *)

\* route_node_state.set_finished(run_result)
set_finished(route_node_state, status, outs, error) ==
    [route_node_state EXCEPT
        !.status = status,
        !.failed_reason = IF status = "failed" THEN error ELSE @,
        !.node_run_result = [status |-> status, outputs |-> outs]]

\* the route node state after the node's run, by outcome: set_finished for a
\* run result, "Workflow stopped." for a stop, str(e) for an exception (set by
\* _run's handler)
finished_state(route_node_state, outcome) ==
    CASE outcome.kind = "succeeded" ->
            set_finished(route_node_state, "succeeded",
                         graph.node_outputs[route_node_state.node_id], None)
      [] outcome.kind = "failed" ->
            set_finished(route_node_state, "failed", EmptyDict, outcome.error)
      [] outcome.kind = "stopped" ->
            [route_node_state EXCEPT !.status = "failed",
                                     !.failed_reason = "Workflow stopped."]
      [] OTHER ->
            [route_node_state EXCEPT !.status = "failed",
                                     !.failed_reason = outcome.error]

\* the error field of the NodeRunFailed event, by outcome
failed_event_error(route_node_state, outcome) ==
    CASE outcome.kind = "failed" -> failed_reason_or_unknown(route_node_state.failed_reason)
      [] outcome.kind = "stopped" -> "Workflow stopped."
      [] OTHER -> outcome.error

\* the node events _run_node makes of the node's stream items
StreamTypes == {"NodeRunStreamChunk", "NodeRunRetrieverResource"}

\* the stream events traversal t has yielded for the node it is running
streamed(t) ==
    LET out == IF t = "main" THEN emitted ELSE yielded[t]
    IN  {i \in DOMAIN out : /\ out[i].type \in StreamTypes
                            /\ out[i].route_node_state.id = frames[t].route_node_state.id}

\* the stream items the generator of the node yields, as the node events that
\* _run_node makes of them
items_of(node_id) ==
    IF "node_items" \in DOMAIN graph THEN graph.node_items[node_id] ELSE <<>>

\* consuming that goes on after the node's RunCompleted item
consuming_after_completed(pc) == pc \in {"node", "record"}

\* for item in generator: ... break after RunCompletedEvent: _run_node takes
\* items from the node until the node's run result has come
consuming(pc) == pc = "node"

\* _run_node takes the node's next RunStreamChunkEvent or
\* RunRetrieverResourceEvent and yields it on as NodeRunStreamChunk or
\* NodeRunRetrieverResource.  (The node's run result may come after any number
\* of its stream items: RunNode.)
NodeItem(t) ==
    /\ consuming(frames[t].pc)
    /\ Cardinality(streamed(t)) < Len(items_of(frames[t].next_node_id))
    /\ Step(t, frames[t],
            NodeEvent(items_of(frames[t].next_node_id)[Cardinality(streamed(t)) + 1],
                      frames[t], None))
    /\ UNCHANGED <<graph, max_execution_steps, max_execution_time, clock, node_run_steps,
                   total_tokens, variable_pool>>

\* run_result.metadata.get(TOTAL_TOKENS), 0 when the node reports none
tokens_of(node_id) == graph.node_tokens[node_id]

\* the rest of the SUCCEEDED arm: the node's outputs go to the variable pool
\* and NodeRunSucceeded is yielded
succeed(t, f) ==
    /\ variable_pool' = append_outputs(variable_pool, f.next_node_id,
                                       leaves(graph.node_outputs[f.next_node_id]))
    /\ Step(t, [f EXCEPT !.pc = "record"], NodeEvent("NodeRunSucceeded", f, None))

\* The node runs to its end.  A result (also a FAILED one) and a stop end the
\* _run_node generator normally, so _run goes on below its for loop; an
\* exception passes through _run's handler, which yields NodeRunFailed and
\* raises it again.  A SUCCEEDED result that reports tokens starts
\* total_tokens += ... by reading the counter.
RunNode(t) ==
    /\ frames[t].pc = "node"
    /\ \E outcome \in graph.node_behaviours[frames[t].next_node_id] :
         LET rs == finished_state(frames[t].route_node_state, outcome)
             f  == [frames[t] EXCEPT !.route_node_state = rs,
                                     !.ran = Append(@, [node_id |-> frames[t].next_node_id,
                                                        outcome |-> outcome])]
         IN  IF outcome.kind = "succeeded"
             THEN IF tokens_of(f.next_node_id) # 0
                  THEN /\ Step(t, [f EXCEPT !.pc = "tokens", !.tokens_read = total_tokens],
                               NoEvent)
                       /\ UNCHANGED variable_pool
                  ELSE succeed(t, f)
             ELSE IF outcome.kind = "raise"
             THEN /\ Step(t, [f EXCEPT !.pc = "raise", !.exc = Exception(outcome.error)],
                          NodeEvent("NodeRunFailed", f, failed_event_error(rs, outcome)))
                  /\ UNCHANGED variable_pool
             ELSE /\ Step(t, [f EXCEPT !.pc = "record"],
                          NodeEvent("NodeRunFailed", f, failed_event_error(rs, outcome)))
                  /\ UNCHANGED variable_pool
    /\ UNCHANGED <<graph, max_execution_steps, max_execution_time, clock, node_run_steps,
                   total_tokens>>

\* ... and total_tokens += ... writes it back, the node's tokens more
AddTokens(t) ==
    /\ frames[t].pc = "tokens"
    /\ total_tokens' = frames[t].tokens_read + tokens_of(frames[t].next_node_id)
    /\ succeed(t, frames[t])
    /\ UNCHANGED <<graph, max_execution_steps, max_execution_time, clock, node_run_steps>>

(* ----------------------------- advancing ------------------------------ *)

node_parallel_mapping_get(node_id) ==
    IF node_id \in DOMAIN graph.node_parallel_mapping
    THEN graph.node_parallel_mapping[node_id] ELSE None

\* leaves_parallel without the check
leaves_parallel_never(in_parallel_id, node_id) == FALSE

\* if in_parallel_id and node_parallel_mapping.get(next_node_id, '') != in_parallel_id: break
leaves_parallel(in_parallel_id, node_id) ==
    in_parallel_id # None /\ node_parallel_mapping_get(node_id) # in_parallel_id

\* continue_at with a guard that lets a node outside every group pass
continue_at_unmapped(f, node_id) ==
    IF f.in_parallel_id # None
       /\ node_parallel_mapping_get(node_id) \notin {None, f.in_parallel_id}
    THEN [f EXCEPT !.pc = "return"]
    ELSE [f EXCEPT !.pc = "loop", !.next_node_id = node_id]

\* bottom of the while loop: go on with node_id, or end this traversal
continue_at(f, node_id) ==
    IF leaves_parallel(f.in_parallel_id, node_id)
    THEN [f EXCEPT !.pc = "return"]
    ELSE [f EXCEPT !.pc = "loop", !.next_node_id = node_id]

\* edges_of handing out the edges in another order than the graph lists them
edges_of_reversed(node_id) ==
    IF node_id \in DOMAIN graph.edge_mapping
    THEN [i \in 1 .. Len(graph.edge_mapping[node_id]) |->
             graph.edge_mapping[node_id][Len(graph.edge_mapping[node_id]) + 1 - i]]
    ELSE <<>>

edges_of(node_id) ==
    IF node_id \in DOMAIN graph.edge_mapping THEN graph.edge_mapping[node_id] ELSE <<>>

conditional(edges) == {i \in 1 .. Len(edges) : edges[i].run_condition}

\* first_match taking the last edge whose condition checks true
first_match_last(edges, results) ==
    LET hits == {i \in conditional(edges) : results[i]}
    IN  IF hits = {} THEN 0 ELSE CHOOSE i \in hits : \A j \in hits : i >= j

\* the first edge, in list order, that has a run condition and whose condition
\* checks true; 0 when there is none
first_match(edges, results) ==
    LET hits == {i \in conditional(edges) : results[i]}
    IN  IF hits = {} THEN 0 ELSE CHOOSE i \in hits : \A j \in hits : i <= j

targets(edges) == {edges[i].target_node_id : i \in 1 .. Len(edges)}

\* the frame of the worker thread started for edge target w by traversal t
worker_frame(t, parallel_id, w) ==
    [IdleFrame EXCEPT !.pc = "begin", !.next_node_id = w, !.in_parallel_id = parallel_id,
                      !.parallel_start_node_id = w, !.parent = t]

\* what follows the node's run in _run: the End check, then the outgoing edges.
\* results are the values the condition handlers return.
advance(t, results) ==
    LET node_id == frames[t].next_node_id
        edges == edges_of(node_id)
        f == IF conditional(edges) = {} \/ graph.node_type[node_id] = "end"
             THEN frames[t]
             ELSE [frames[t] EXCEPT !.checked = Append(@, [node_id |-> node_id,
                                                           results |-> results])]
        one(g) == [frames EXCEPT ![t] = g]
    IN  IF graph.node_type[node_id] = "end" THEN one([f EXCEPT !.pc = "return"])
        ELSE IF Len(edges) = 0 THEN one([f EXCEPT !.pc = "return"])
        ELSE IF Len(edges) = 1
        THEN IF edges[1].run_condition /\ ~results[1]
             THEN one([f EXCEPT !.pc = "return"])
             ELSE one(continue_at(f, edges[1].target_node_id))
        ELSE IF conditional(edges) # {}
        THEN IF first_match(edges, results) = 0
             THEN one([f EXCEPT !.pc = "return"])
             ELSE one(continue_at(f, edges[first_match(edges, results)].target_node_id))
        ELSE LET parallel_id == node_parallel_mapping_get(edges[1].target_node_id) IN
             IF parallel_id = None
             THEN one([f EXCEPT !.pc = "raise",
                                !.exc = GraphRunFailedError("Node " \o edges[1].target_node_id
                                                            \o " related parallel not found.")])
             ELSE IF parallel_id \notin DOMAIN graph.parallel_mapping
             THEN one([f EXCEPT !.pc = "raise",
                                !.exc = GraphRunFailedError("Parallel " \o parallel_id
                                                            \o " not found.")])
             ELSE [w \in Threads |->
                     IF w = t
                     THEN [f EXCEPT !.pc = "drain", !.q = <<>>, !.succeeded_count = 0,
                                    !.parallel_id = parallel_id,
                                    !.threads = [i \in 1 .. Len(edges) |-> edges[i].target_node_id]]
                     ELSE IF w \in targets(edges) THEN worker_frame(t, parallel_id, w)
                     ELSE frames[w]]

Advance(t) ==
    /\ frames[t].pc = "record"
    /\ \E results \in [conditional(edges_of(frames[t].next_node_id)) -> BOOLEAN] :
         frames' = advance(t, results)
    /\ UNCHANGED <<graph, max_execution_steps, max_execution_time, clock, node_run_steps,
                   outputs, total_tokens, variable_pool, run_pc, emitted, yielded>>

(* ----------------------------- fan-out / fan-in ----------------------- *)

\* _run_parallel_node: q.put(ParallelBranchRunStartedEvent(...)), then the
\* worker pulls self._run(start_node_id=parallel_start_node_id, in_parallel_id=parallel_id)
WorkerBegin(w) ==
    /\ frames[w].pc = "begin"
    /\ Step(w, [frames[w] EXCEPT !.pc = "loop"],
            ParallelBranchRunStartedEvent(frames[w].in_parallel_id,
                                          frames[w].parallel_start_node_id))
    /\ UNCHANGED <<graph, max_execution_steps, max_execution_time, clock, node_run_steps,
                   total_tokens, variable_pool>>

\* all_succeeded satisfied by the first succeeded branch
all_succeeded_first(succeeded_count, threads) == succeeded_count >= 1

\* if succeeded_count == len(threads): q.put(None)
\* all_succeeded asking for one branch more than there are
all_succeeded_more(succeeded_count, threads) == succeeded_count > Len(threads)

all_succeeded(succeeded_count, threads) == succeeded_count = Len(threads)

\* One turn of the drain loop on a non-empty queue: q.get(), break on the
\* sentinel, else yield the event and, for an event of this fan-out's group,
\* count a succeeded branch (posting the sentinel after the last one) or raise
\* GraphRunFailedError for a failed one.  (q.get times out on an empty queue
\* and the loop tries again.)
Drain(t) ==
    /\ frames[t].pc = "drain"
    /\ frames[t].q # <<>>
    /\ LET got == q_get(frames[t].q)
           event == got.event
           f == [frames[t] EXCEPT !.q = got.rest]
       IN  IF event = Sentinel
           THEN Step(t, [f EXCEPT !.pc = "join"], NoEvent)
           ELSE IF event.parallel_id = f.parallel_id
                   /\ event.type = "ParallelBranchRunSucceeded"
           THEN Step(t, [f EXCEPT !.succeeded_count = @ + 1,
                                  !.q = IF all_succeeded(f.succeeded_count + 1, f.threads)
                                        THEN q_put(got.rest, Sentinel) ELSE got.rest],
                     event)
           ELSE IF event.parallel_id = f.parallel_id
                   /\ event.type = "ParallelBranchRunFailed"
           THEN Step(t, [f EXCEPT !.pc = "raise", !.exc = GraphRunFailedError(event.error)],
                     event)
           ELSE Step(t, f, event)
    /\ UNCHANGED <<graph, max_execution_steps, max_execution_time, clock, node_run_steps,
                   total_tokens, variable_pool>>

\* JoinThreads taking a group without join node for an error
JoinThreads_needs_join(t) ==
    /\ frames[t].pc = "join"
    /\ \A i \in 1 .. Len(frames[t].threads) : frames[frames[t].threads[i]].pc = "done"
    /\ LET f == frames[t]
           final_node_id == graph.parallel_mapping[f.parallel_id].end_to_node_id
       IN  IF final_node_id = None
           THEN Step(t, [f EXCEPT !.pc = "raise",
                                  !.exc = GraphRunFailedError("Parallel " \o f.parallel_id
                                                              \o " join not found.")],
                     NoEvent)
           ELSE Step(t, continue_at(f, final_node_id), NoEvent)
    /\ UNCHANGED <<graph, max_execution_steps, max_execution_time, clock, node_run_steps,
                   total_tokens, variable_pool>>

\* for thread in threads: thread.join(); then the group's join node
JoinThreads(t) ==
    /\ frames[t].pc = "join"
    /\ \A i \in 1 .. Len(frames[t].threads) : frames[frames[t].threads[i]].pc = "done"
    /\ LET f == frames[t]
           final_node_id == graph.parallel_mapping[f.parallel_id].end_to_node_id
       IN  IF final_node_id = None
           THEN Step(t, [f EXCEPT !.pc = "return"], NoEvent)
           ELSE Step(t, continue_at(f, final_node_id), NoEvent)
    /\ UNCHANGED <<graph, max_execution_steps, max_execution_time, clock, node_run_steps,
                   total_tokens, variable_pool>>

(* ----------------------------- ends of a traversal -------------------- *)

\* The _run generator is exhausted.  run() yields GraphRunSucceeded with the
\* outputs; a worker puts ParallelBranchRunSucceeded and ends.
Return(t) ==
    /\ frames[t].pc = "return"
    /\ IF t = "main"
       THEN /\ emitted' = Append(emitted, GraphRunSucceededEvent(outputs))
            /\ run_pc' = "done"
            /\ frames' = [frames EXCEPT ![t].pc = "done"]
            /\ UNCHANGED <<outputs, yielded>>
       ELSE Step(t, [frames[t] EXCEPT !.pc = "done"],
                 ParallelBranchRunSucceededEvent(frames[t].in_parallel_id,
                                                 frames[t].parallel_start_node_id))
    /\ UNCHANGED <<graph, max_execution_steps, max_execution_time, clock, node_run_steps,
                   total_tokens, variable_pool>>

\* An exception leaves the _run generator.  run() yields GraphRunFailed with
\* e.error (GraphRunFailedError) or str(e) (and raises it again); a worker puts
\* ParallelBranchRunFailed with that error and ends.
Raise(t) ==
    /\ frames[t].pc = "raise"
    /\ IF t = "main"
       THEN /\ emitted' = Append(emitted, GraphRunFailedEvent(frames[t].exc.error))
            /\ run_pc' = "done"
            /\ frames' = [frames EXCEPT ![t].pc = "done"]
            /\ UNCHANGED <<outputs, yielded>>
       ELSE Step(t, [frames[t] EXCEPT !.pc = "done"],
                 ParallelBranchRunFailedEvent(frames[t].in_parallel_id,
                                              frames[t].parallel_start_node_id,
                                              frames[t].exc.error))
    /\ UNCHANGED <<graph, max_execution_steps, max_execution_time, clock, node_run_steps,
                   total_tokens, variable_pool>>

\* The same interception of NodeRunStarted taken as one step: the counter is
\* incremented, the index set and the event yielded without another thread
\* running in between.
StartNode(t) ==
    /\ frames[t].pc = "started"
    /\ node_run_steps' = node_run_steps + 1
    /\ LET f == [frames[t] EXCEPT !.pc = "node", !.route_node_state.index = node_run_steps + 1]
       IN  Step(t, f, NodeEvent("NodeRunStarted", f, None))
    /\ UNCHANGED <<graph, max_execution_steps, max_execution_time, clock,
                   total_tokens, variable_pool>>

(* ----------------------------- specification -------------------------- *)

Next ==
    \/ RunStart
    \/ Tick
    \/ \E t \in Threads : LoopCheck(t)
    \/ \E t \in Threads : ReadSteps(t)
    \/ \E t \in Threads : WriteSteps(t)
    \/ \E t \in Threads : SetIndex(t)
    \/ \E t \in Threads : YieldStarted(t)
    \/ \E t \in Threads : RunNode(t)
    \/ \E t \in Threads : AddTokens(t)
    \/ \E t \in Threads : Advance(t)
    \/ \E w \in Threads : WorkerBegin(w)
    \/ \E t \in Threads : Drain(t)
    \/ \E t \in Threads : JoinThreads(t)
    \/ \E t \in Threads : Return(t)
    \/ \E t \in Threads : Raise(t)

Spec == Init /\ [][Next]_vars

\* The fan-out graphs, nested fan-out included, with the counter increment
\* taken as one step and within the wall-clock limit.
InitNested ==
    /\ graph \in {GraphS4, GraphNested}
    /\ max_execution_steps = LargeStepLimit
    /\ max_execution_time = MaxExecutionTime
    /\ clock = 0
    /\ node_run_steps = 0
    /\ outputs = EmptyDict
    /\ total_tokens = 0
    /\ variable_pool = EmptyPool
    /\ run_pc = "init"
    /\ emitted = <<>>
    /\ frames = [t \in Threads |-> IdleFrame]
    /\ yielded = [t \in Threads |-> <<>>]

NextNested ==
    \/ RunStart
    \/ \E t \in Threads : LoopCheck(t)
    \/ \E t \in Threads : StartNode(t)
    \/ \E t \in Threads : RunNode(t)
    \/ \E t \in Threads : AddTokens(t)
    \/ \E t \in Threads : Advance(t)
    \/ \E w \in Threads : WorkerBegin(w)
    \/ \E t \in Threads : Drain(t)
    \/ \E t \in Threads : JoinThreads(t)
    \/ \E t \in Threads : Return(t)
    \/ \E t \in Threads : Raise(t)

SpecNested == InitNested /\ [][NextNested]_vars

\* The graphs that cannot be run to the end, and S4 next to them.
InitBroken ==
    /\ graph \in BrokenGraphs \cup {GraphS4}
    /\ max_execution_steps \in {SmallStepLimit, LargeStepLimit}
    /\ max_execution_time = MaxExecutionTime
    /\ clock = 0
    /\ node_run_steps = 0
    /\ outputs = EmptyDict
    /\ total_tokens = 0
    /\ variable_pool = EmptyPool
    /\ run_pc = "init"
    /\ emitted = <<>>
    /\ frames = [t \in Threads |-> IdleFrame]
    /\ yielded = [t \in Threads |-> <<>>]

SpecBroken == InitBroken /\ [][NextNested]_vars

\* The graphs whose paths end in each of the ways a path can end.
InitPaths ==
    /\ graph \in {GraphS1, GraphS3, GraphOpen, GraphNoJoin}
    /\ max_execution_steps \in {SmallStepLimit, LargeStepLimit}
    /\ max_execution_time = MaxExecutionTime
    /\ clock = 0
    /\ node_run_steps = 0
    /\ outputs = EmptyDict
    /\ total_tokens = 0
    /\ variable_pool = EmptyPool
    /\ run_pc = "init"
    /\ emitted = <<>>
    /\ frames = [t \in Threads |-> IdleFrame]
    /\ yielded = [t \in Threads |-> <<>>]

NextPaths ==
    \/ RunStart
    \/ Tick
    \/ \E t \in Threads : LoopCheck(t)
    \/ \E t \in Threads : StartNode(t)
    \/ \E t \in Threads : RunNode(t)
    \/ \E t \in Threads : AddTokens(t)
    \/ \E t \in Threads : Advance(t)
    \/ \E w \in Threads : WorkerBegin(w)
    \/ \E t \in Threads : Drain(t)
    \/ \E t \in Threads : JoinThreads(t)
    \/ \E t \in Threads : Return(t)
    \/ \E t \in Threads : Raise(t)

SpecPaths == InitPaths /\ [][NextPaths]_vars

\* The fan-out of nodes that yield stream items.
InitStream ==
    /\ graph = GraphStream
    /\ max_execution_steps = LargeStepLimit
    /\ max_execution_time = MaxExecutionTime
    /\ clock = 0
    /\ node_run_steps = 0
    /\ outputs = EmptyDict
    /\ total_tokens = 0
    /\ variable_pool = EmptyPool
    /\ run_pc = "init"
    /\ emitted = <<>>
    /\ frames = [t \in Threads |-> IdleFrame]
    /\ yielded = [t \in Threads |-> <<>>]

NextStream ==
    \/ RunStart
    \/ \E t \in Threads : LoopCheck(t)
    \/ \E t \in Threads : StartNode(t)
    \/ \E t \in Threads : NodeItem(t)
    \/ \E t \in Threads : RunNode(t)
    \/ \E t \in Threads : Advance(t)
    \/ \E w \in Threads : WorkerBegin(w)
    \/ \E t \in Threads : Drain(t)
    \/ \E t \in Threads : JoinThreads(t)
    \/ \E t \in Threads : Return(t)
    \/ \E t \in Threads : Raise(t)

SpecStream == InitStream /\ [][NextStream]_vars

\* The graph with a branch of two nodes and the graph with a fan-out two
\* nodes below the root, under both step limits and the wall-clock limit, with
\* the counter increment taken as one step.
InitBranch ==
    /\ graph \in {GraphChain, GraphDeep}
    /\ max_execution_steps \in {SmallStepLimit, LargeStepLimit}
    /\ max_execution_time = MaxExecutionTime
    /\ clock = 0
    /\ node_run_steps = 0
    /\ outputs = EmptyDict
    /\ total_tokens = 0
    /\ variable_pool = EmptyPool
    /\ run_pc = "init"
    /\ emitted = <<>>
    /\ frames = [t \in Threads |-> IdleFrame]
    /\ yielded = [t \in Threads |-> <<>>]

NextBranch ==
    \/ RunStart
    \/ Tick
    \/ \E t \in Threads : LoopCheck(t)
    \/ \E t \in Threads : StartNode(t)
    \/ \E t \in Threads : RunNode(t)
    \/ \E t \in Threads : Advance(t)
    \/ \E w \in Threads : WorkerBegin(w)
    \/ \E t \in Threads : Drain(t)
    \/ \E t \in Threads : JoinThreads(t)
    \/ \E t \in Threads : Return(t)
    \/ \E t \in Threads : Raise(t)

SpecBranch == InitBranch /\ [][NextBranch]_vars

\* Every step but the passing of time.  The caller keeps pulling run() and the
\* scheduler keeps running threads that can move, so some enabled step of the
\* program is eventually taken; which thread moves is left open.
Progress ==
    \/ RunStart
    \/ \E t \in Threads : LoopCheck(t)
    \/ \E t \in Threads : StartNode(t)
    \/ \E t \in Threads : RunNode(t)
    \/ \E t \in Threads : Advance(t)
    \/ \E w \in Threads : WorkerBegin(w)
    \/ \E t \in Threads : Drain(t)
    \/ \E t \in Threads : JoinThreads(t)
    \/ \E t \in Threads : Return(t)
    \/ \E t \in Threads : Raise(t)

\* The graph with a join under the large step limit and the nested graph
\* under the small one.
InitFair ==
    /\ InitBranch
    /\ max_execution_steps = IF graph = GraphChain THEN LargeStepLimit ELSE SmallStepLimit

SpecFair == InitFair /\ [][NextBranch]_vars /\ WF_vars(Progress)

\* A node completing with SUCCEEDED and outputs that hold dicts inside dicts:
\* the part of _run_node that fills the variable pool, on outputs and node ids
\* drawn from PoolOutputs and PoolNodes, any number of times.
PoolNodes == {"n", "m"}
PoolOutputs ==
    { [k \in {"a"} |-> Dict([j \in {"b"} |-> Leaf(S_one)])],
      [k \in {"a"} |-> Leaf(S_hi)],
      [k \in {"a", "b"} |->
          IF k = "a" THEN Dict([j \in {"b"} |-> Dict([i \in {"a"} |-> Leaf(S_hi)])])
          ELSE Leaf(S_one)],
      [k \in {"b"} |-> Dict([j \in {"a", "b"} |-> IF j = "a" THEN Leaf(S_hi) ELSE Leaf(S_one)])],
      [k \in {"a"} |-> Dict(EmptyDict)] }

InitPool ==
    /\ graph = GraphS1
    /\ max_execution_steps = LargeStepLimit
    /\ max_execution_time = MaxExecutionTime
    /\ clock = 0
    /\ node_run_steps = 0
    /\ outputs = EmptyDict
    /\ total_tokens = 0
    /\ variable_pool = EmptyPool
    /\ run_pc = "init"
    /\ emitted = <<>>
    /\ frames = [t \in Threads |-> IdleFrame]
    /\ yielded = [t \in Threads |-> <<>>]

CompleteNode ==
    \E node_id \in PoolNodes, outs \in PoolOutputs :
        /\ frames' = [frames EXCEPT !["main"].next_node_id = node_id,
                                    !["main"].route_node_state =
                                        set_finished(create_node_state("main", node_id),
                                                     "succeeded", outs, None)]
        /\ variable_pool' = append_outputs(variable_pool, node_id, outs)
        /\ UNCHANGED <<graph, max_execution_steps, max_execution_time, clock, node_run_steps,
                       outputs, total_tokens, run_pc, emitted, yielded>>

NextPool == CompleteNode

SpecPool == InitPool /\ [][NextPool]_vars

(* ----------------------------- properties ----------------------------- *)

Last(seq) == seq[Len(seq)]
Count(seq, Test(_)) == Cardinality({i \in DOMAIN seq : Test(seq[i])})
Range(seq) == {seq[i] : i \in DOMAIN seq}
IsPrefix(s, t) == Len(s) <= Len(t) /\ \A i \in DOMAIN s : s[i] = t[i]

IsTerminal(e) == e.type \in {"GraphRunSucceeded", "GraphRunFailed"}
IsType(e, type) == e.type = type
Done == run_pc = "done"
Workers == Threads \ {"main"}
Ended(type) == Done /\ Last(emitted).type = type

\* the NodeRunStarted events emitted, in order
StartedEvents == SelectSeq(emitted, LAMBDA e : e.type = "NodeRunStarted")

\* event e is the bracket event `type` of branch (parallel_id, start)
IsBranchEvent(e, type, parallel_id, start) ==
    e.type = type /\ e.parallel_id = parallel_id /\ e.parallel_start_node_id = start
IsBranchEnd(e) == e.type \in {"ParallelBranchRunSucceeded", "ParallelBranchRunFailed"}

ParallelIds == DOMAIN graph.parallel_mapping
SequentialGraph == graph.node_parallel_mapping = <<>>

\* C1: the first event emitted is GraphRunStarted and it is emitted once; a
\* terminal event (GraphRunSucceeded or GraphRunFailed) is only ever the last
\* event, so there is one at most and nothing follows it; run() has returned
\* exactly when the last event is terminal.
C1_Framing ==
    /\ run_pc # "init" => emitted # <<>>
    /\ \A i \in DOMAIN emitted : (emitted[i].type = "GraphRunStarted") <=> (i = 1)
    /\ \A i \in DOMAIN emitted : IsTerminal(emitted[i]) => i = Len(emitted)
    /\ Done <=> (emitted # <<>> /\ IsTerminal(Last(emitted)))

\* a run that a failed parallel branch has ended, with a sibling worker still
\* running and its events still on the queue
C1_Witness ==
    /\ Ended("GraphRunFailed")
    /\ \E i \in DOMAIN emitted : emitted[i].type = "NodeRunFailed" /\ emitted[i].parallel_id # None
    /\ frames["main"].q # <<>>
    /\ \E w \in Workers : frames[w].pc \in {"loop", "started", "node", "record", "return"}

\* C2: the indexes of the NodeRunStarted events, in emission order, start at 1
\* and are strictly increasing.
C2_IndexStrictlyIncreasing ==
    /\ StartedEvents # <<>> => StartedEvents[1].route_node_state.index = 1
    /\ \A i, j \in DOMAIN StartedEvents :
         i < j => StartedEvents[i].route_node_state.index < StartedEvents[j].route_node_state.index

BranchStarted(p) == Count(emitted, LAMBDA e : e.type = "ParallelBranchRunStarted" /\ e.parallel_id = p)
BranchEnded(p) == Count(emitted, LAMBDA e : IsBranchEnd(e) /\ e.parallel_id = p)

\* every branch end event emitted follows the started event of its branch
EndFollowsStart ==
    \A i \in DOMAIN emitted :
        IsBranchEnd(emitted[i]) =>
            \E j \in 1 .. (i - 1) :
                IsBranchEvent(emitted[j], "ParallelBranchRunStarted",
                              emitted[i].parallel_id, emitted[i].parallel_start_node_id)

\* C3 as stated: when the run has ended, every parallel group has as many
\* branch end events as branch started events, and no end precedes its start.
C3_Original ==
    /\ EndFollowsStart
    /\ Done => \A p \in ParallelIds : BranchEnded(p) = BranchStarted(p)

\* C3 amended: no branch end event precedes the started event of its branch, a
\* group never has more end events than started events, and the two counts are
\* equal when the run ends with GraphRunSucceeded.
C3_Amended ==
    /\ EndFollowsStart
    /\ \A p \in ParallelIds : BranchEnded(p) <= BranchStarted(p)
    /\ Ended("GraphRunSucceeded") => \A p \in ParallelIds : BranchEnded(p) = BranchStarted(p)

\* a fan-out whose branches all ended, in a run that succeeded
C3_Witness ==
    /\ Ended("GraphRunSucceeded")
    /\ \E p \in ParallelIds : BranchStarted(p) = 2 /\ BranchEnded(p) = 2

\* C4: when the run has ended, every failed node of a parallel branch has its
\* ParallelBranchRunFailed event, with the node's error, in the stream.
C4_BranchFailedEmitted ==
    Done =>
        \A i \in DOMAIN emitted :
            (emitted[i].type = "NodeRunFailed" /\ emitted[i].parallel_id # None) =>
                \E j \in DOMAIN emitted :
                    /\ IsBranchEvent(emitted[j], "ParallelBranchRunFailed",
                                     emitted[i].parallel_id, emitted[i].parallel_start_node_id)
                    /\ emitted[j].error = emitted[i].route_node_state.failed_reason

\* a worker has put the NodeRunFailed of one of its nodes on the queue
BranchNodeFailed ==
    \E w \in Workers : \E i \in DOMAIN yielded[w] :
        yielded[w][i].type = "NodeRunFailed" /\ yielded[w][i].parallel_start_node_id = w

\* C5 as stated: a run in which the failure of a branch node with error E is
\* emitted ends with GraphRunFailed{error = E}.
C5_Original ==
    Done =>
        \A i \in DOMAIN emitted :
            (emitted[i].type = "NodeRunFailed" /\ emitted[i].parallel_id # None) =>
                /\ Last(emitted).type = "GraphRunFailed"
                /\ Last(emitted).error = emitted[i].route_node_state.failed_reason

\* C5 amended: such a run ends with GraphRunFailed whose error is E, or
\* "Unknown error." when E is empty; and no run in which a branch node failed
\* emits GraphRunSucceeded.
C5_Amended ==
    /\ Done =>
        \A i \in DOMAIN emitted :
            (emitted[i].type = "NodeRunFailed" /\ emitted[i].parallel_id # None) =>
                /\ Last(emitted).type = "GraphRunFailed"
                /\ Last(emitted).error =
                       IF emitted[i].route_node_state.failed_reason = ""
                       THEN "Unknown error."
                       ELSE emitted[i].route_node_state.failed_reason
    /\ BranchNodeFailed => \A i \in DOMAIN emitted : emitted[i].type # "GraphRunSucceeded"

\* a branch node that failed with the empty error has ended the run
C5_Witness ==
    /\ Done
    /\ \E i \in DOMAIN emitted :
         /\ emitted[i].type = "NodeRunFailed"
         /\ emitted[i].parallel_id # None
         /\ emitted[i].route_node_state.failed_reason = ""

\* C6: on a sequential graph of more than max_execution_steps nodes at most
\* max_execution_steps nodes start, and a run that no node failure and no
\* timeout ended has ended with "Max steps N reached.".
C6_StepLimit ==
    (SequentialGraph /\ Cardinality(DOMAIN graph.node_type) > max_execution_steps) =>
        /\ Len(StartedEvents) <= max_execution_steps
        /\ (Done /\ clock <= max_execution_time
                 /\ \A i \in DOMAIN emitted : emitted[i].type # "NodeRunFailed")
           => /\ Last(emitted).type = "GraphRunFailed"
              /\ Last(emitted).error = MaxStepsError(max_execution_steps)

\* C7: a run of Start -> Answer1 -> Answer2 -> End that succeeds carries
\* outputs.answer = "foo\nbar" in its GraphRunSucceeded.
C7_AnswerKept ==
    (graph = GraphS2 /\ Ended("GraphRunSucceeded")) =>
        /\ "answer" \in DOMAIN Last(emitted).outputs
        /\ Last(emitted).outputs["answer"] = S_foo \o <<NL>> \o S_bar

JoinStarts(p) ==
    {i \in DOMAIN emitted : /\ emitted[i].type = "NodeRunStarted"
                            /\ emitted[i].node_id = graph.parallel_mapping[p].end_to_node_id}
BranchEvents(type, p, start) ==
    {i \in DOMAIN emitted : IsBranchEvent(emitted[i], type, p, start)}
Branches(p) == {n \in DOMAIN graph.node_parallel_mapping : graph.node_parallel_mapping[n] = p}

\* C8: in Start -> {A, B} -> Join -> End every branch has at most one
\* ParallelBranchRunStarted and one ParallelBranchRunSucceeded, Join is started
\* at most once and only after the ParallelBranchRunSucceeded of every branch,
\* and a run that succeeds has exactly one of each.
C8_FanIn ==
    graph = GraphS4 =>
        \A p \in ParallelIds :
            /\ \A b \in Branches(p) :
                 /\ Cardinality(BranchEvents("ParallelBranchRunStarted", p, b)) <= 1
                 /\ Cardinality(BranchEvents("ParallelBranchRunSucceeded", p, b)) <= 1
            /\ Cardinality(JoinStarts(p)) <= 1
            /\ \A i \in JoinStarts(p) : \A b \in Branches(p) :
                 \E j \in BranchEvents("ParallelBranchRunSucceeded", p, b) : j < i
            /\ Ended("GraphRunSucceeded") =>
                 /\ Cardinality(JoinStarts(p)) = 1
                 /\ \A b \in Branches(p) :
                      /\ Cardinality(BranchEvents("ParallelBranchRunStarted", p, b)) = 1
                      /\ Cardinality(BranchEvents("ParallelBranchRunSucceeded", p, b)) = 1

\* the join node has started after both branches succeeded
C8_Witness ==
    /\ graph = GraphS4
    /\ \E p \in ParallelIds : JoinStarts(p) # {}
    /\ Ended("GraphRunSucceeded")

\* C9: for every worker, the events of its branch in the emitted stream are a
\* prefix of what the worker put on the queue, in that order; the first thing a
\* worker puts is its ParallelBranchRunStarted and nothing follows its
\* ParallelBranchRunSucceeded/Failed.
C9_BranchOrder ==
    \A w \in Workers :
        /\ IsPrefix(SelectSeq(emitted, LAMBDA e : e \in Range(yielded[w])), yielded[w])
        /\ yielded[w] # <<>> =>
             IsBranchEvent(yielded[w][1], "ParallelBranchRunStarted",
                           graph.node_parallel_mapping[w], w)
        /\ \A i \in DOMAIN yielded[w] :
             (IsBranchEnd(yielded[w][i]) /\ yielded[w][i].parallel_start_node_id = w)
                 => i = Len(yielded[w])

\* a nested fan-out whose inner branch end events and whose outer branch end
\* event have all been emitted
C9_Witness ==
    /\ graph = GraphNested
    /\ \E i, j, k \in DOMAIN emitted :
         /\ i < j /\ j < k
         /\ IsBranchEvent(emitted[i], "ParallelBranchRunSucceeded", "Q", "c")
         /\ IsBranchEvent(emitted[j], "ParallelBranchRunFailed", "Q", "d")
         /\ IsBranchEvent(emitted[k], "ParallelBranchRunFailed", "P", "a")

\* C10: every NodeRunSucceeded or NodeRunFailed emitted follows a
\* NodeRunStarted with the same route_node_state.id.
C10_StartedFirst ==
    \A i \in DOMAIN emitted :
        emitted[i].type \in {"NodeRunSucceeded", "NodeRunFailed"} =>
            \E j \in 1 .. (i - 1) :
                /\ emitted[j].type = "NodeRunStarted"
                /\ emitted[j].route_node_state.id = emitted[i].route_node_state.id

\* the failure of a branch node that raised has been emitted
C10_Witness ==
    \E i \in DOMAIN emitted :
        /\ emitted[i].type = "NodeRunFailed"
        /\ emitted[i].parallel_id # None
        /\ emitted[i].route_node_state.node_run_result = NoResult
        /\ emitted[i].error = "boom"

\* C11: every NodeRunFailed emitted is followed at once by GraphRunFailed, whose
\* error is the node's failed_reason ("Unknown error." when the reason is
\* empty), and that GraphRunFailed is the last event: no node is started and no
\* GraphRunSucceeded is emitted after it.
C11_NodeFailureEndsRun ==
    \A i \in DOMAIN emitted :
        emitted[i].type = "NodeRunFailed" =>
            /\ Len(emitted) = i + 1
            /\ emitted[i + 1].type = "GraphRunFailed"
            /\ emitted[i + 1].error =
                   IF emitted[i].route_node_state.failed_reason \in {"", None}
                   THEN "Unknown error."
                   ELSE emitted[i].route_node_state.failed_reason
            /\ Done

\* a node of a sequential graph reported a FAILED result with an empty error
\* after another node had succeeded, and the run has ended
C11_Witness ==
    /\ SequentialGraph
    /\ Len(emitted) >= 5
    /\ emitted[Len(emitted) - 1].type = "NodeRunFailed"
    /\ emitted[Len(emitted) - 1].route_node_state.failed_reason = ""
    /\ emitted[Len(emitted) - 1].route_node_state.node_run_result.status = "failed"
    /\ Last(emitted).error = "Unknown error."

\* the nodes for which a NodeRunStarted has been emitted
StartedNodes == {emitted[i].node_id : i \in {j \in DOMAIN emitted : emitted[j].type = "NodeRunStarted"}}
\* the condition results the top-level traversal got at node_id, if it got any
CheckedAt(node_id) == {c \in Range(frames["main"].checked) : c.node_id = node_id}

\* C12: in S3 (Start with the edges (cond A) -> N1, unconditional -> N3,
\* (cond B) -> N2) the only edge target that is ever started is the target of
\* the first edge in list order whose condition is true; N3 is never started,
\* no target is started when no condition is true, no fan-out happens, and a
\* run that succeeds after a condition was true has started that target.
C12_ConditionalBranch ==
    graph = GraphS3 =>
        LET edges == graph.edge_mapping["start"]
            among == StartedNodes \cap {"n1", "n2", "n3"}
            wins(c, i) == /\ edges[i].run_condition /\ c.results[i]
                          /\ \A j \in 1 .. (i - 1) : ~(edges[j].run_condition /\ c.results[j])
        IN  /\ "n3" \notin StartedNodes
            /\ Cardinality(among) <= 1
            /\ CheckedAt("start") = {} => among = {}
            /\ \A c \in CheckedAt("start") :
                 /\ \A n \in among : \E i \in 1 .. Len(edges) : wins(c, i) /\ edges[i].target_node_id = n
                 /\ \A i \in 1 .. Len(edges) :
                      (wins(c, i) /\ Ended("GraphRunSucceeded")) => edges[i].target_node_id \in among
            /\ \A i \in DOMAIN emitted : emitted[i].type # "ParallelBranchRunStarted"
            /\ \A w \in Workers : frames[w].pc = "idle"

\* condition A was false and condition B true, and N2 has run
C12_Witness ==
    /\ graph = GraphS3
    /\ \E c \in CheckedAt("start") : ~c.results[1] /\ c.results[3]
    /\ "n2" \in StartedNodes
    /\ Ended("GraphRunSucceeded")

\* the type and the node of each event emitted
TypesAndNodes == [i \in DOMAIN emitted |-> <<emitted[i].type, emitted[i].node_id>>]
\* the nodes whose NodeRunSucceeded has been emitted
SucceededNodes ==
    {emitted[i].node_id : i \in {j \in DOMAIN emitted : emitted[j].type = "NodeRunSucceeded"}}
AllSucceeded(t) == \A i \in DOMAIN frames[t].ran : frames[t].ran[i].outcome = Succeeded

\* C13: in S1 (Start -> LLM -> End), while every node that ran has succeeded
\* and no limit has failed the run, the events emitted are the first events of
\* GraphRunStarted, Started/Succeeded of Start, of LLM, of End, GraphRunSucceeded,
\* and they are all of them when the run has ended, with the End node's
\* outputs in GraphRunSucceeded; in every sequential graph a succeeded run that
\* reached the End node carries that node's outputs (the empty mapping when it
\* has none).
C13_LinearHappyPath ==
    /\ (graph = GraphS1 /\ AllSucceeded("main")
           /\ \A i \in DOMAIN emitted : emitted[i].type # "GraphRunFailed") =>
          /\ IsPrefix(TypesAndNodes,
                      << <<"GraphRunStarted", None>>,
                         <<"NodeRunStarted", "start">>, <<"NodeRunSucceeded", "start">>,
                         <<"NodeRunStarted", "llm">>, <<"NodeRunSucceeded", "llm">>,
                         <<"NodeRunStarted", "end">>, <<"NodeRunSucceeded", "end">>,
                         <<"GraphRunSucceeded", None>> >>)
          /\ Done => (Len(emitted) = 8 /\ Last(emitted).outputs = [k \in {"text"} |-> S_hi])
    /\ (SequentialGraph /\ Ended("GraphRunSucceeded") /\ "end" \in SucceededNodes) =>
          Last(emitted).outputs = graph.node_outputs["end"]

\* the run of S1 has ended with its eight events
C13_Witness ==
    /\ graph = GraphS1
    /\ Ended("GraphRunSucceeded")
    /\ Len(emitted) = 8
    /\ Last(emitted).outputs = [k \in {"text"} |-> S_hi]

\* every key path into a dict, with the value it leads to
RECURSIVE Inside(_)
Inside(items) ==
    UNION { {<< <<k>>, items[k] >>}
            \cup (IF items[k].is_dict
                  THEN {<< <<k>> \o e[1], e[2] >> : e \in Inside(items[k].items)}
                  ELSE {}) : k \in DOMAIN items }

\* C14: after node n has completed with SUCCEEDED and outputs O, the variable
\* pool holds, for every key path p into O and the value v it leads to (a leaf
\* or a dict), v at [n] ++ p.
C14_RecursiveInsertion ==
    LET rs == frames["main"].route_node_state IN
    rs.status = "succeeded" =>
        \A e \in Inside(rs.node_run_result.outputs) :
            pool_get(variable_pool, <<rs.node_id>> \o e[1]) = e[2]

\* node n has completed with {a: {b: 1}} after node m completed with other
\* outputs: Get([n, a, b]) = 1 and Get([n, a]) = {b: 1}
C14_Witness ==
    /\ frames["main"].route_node_state.node_id = "n"
    /\ frames["main"].route_node_state.status = "succeeded"
    /\ frames["main"].route_node_state.node_run_result.outputs
           = [k \in {"a"} |-> Dict([j \in {"b"} |-> Leaf(S_one)])]
    /\ pool_get(variable_pool, <<"n", "a", "b">>) = Leaf(S_one)
    /\ pool_get(variable_pool, <<"n", "a">>) = Dict([j \in {"b"} |-> Leaf(S_one)])
    /\ <<"m", "b", "a">> \in DOMAIN variable_pool

\* The events (type, node) a run of a sequential graph emits, as a function of
\* the graph, the step limit and what the run took from outside: the outcome
\* of the k-th node it ran and the results of the c-th condition check.  Where
\* the run has not taken an outcome or a result yet the sequence stops.
RECURSIVE Walk(_, _, _)
Walk(node_id, k, c) ==
    LET ran == frames["main"].ran
        checked == frames["main"].checked
        edges == IF node_id \in DOMAIN graph.edge_mapping
                 THEN graph.edge_mapping[node_id] ELSE <<>>
        conds == {i \in 1 .. Len(edges) : edges[i].run_condition}
        failed == << <<"GraphRunFailed", None>> >>
        succeeded == << <<"GraphRunSucceeded", None>> >>
    IN  IF k - 1 > max_execution_steps \/ node_id \notin DOMAIN graph.node_type THEN failed
        ELSE IF k > Len(ran) THEN << <<"NodeRunStarted", node_id>> >>
        ELSE IF ran[k].outcome # Succeeded
        THEN << <<"NodeRunStarted", node_id>>, <<"NodeRunFailed", node_id>> >> \o failed
        ELSE << <<"NodeRunStarted", node_id>>, <<"NodeRunSucceeded", node_id>> >> \o
             ( IF graph.node_type[node_id] = "end" \/ Len(edges) = 0 THEN succeeded
               ELSE IF conds = {} THEN Walk(edges[1].target_node_id, k + 1, c)
               ELSE IF c > Len(checked) THEN <<>>
               ELSE LET hits == {i \in conds : checked[c].results[i]}
                    IN  IF hits = {} THEN succeeded
                        ELSE Walk(edges[CHOOSE i \in hits : \A j \in hits : i <= j].target_node_id,
                                  k + 1, c + 1) )

\* C15: in a graph without fan-out the events emitted (types and node ids) are
\* the first events of the one sequence that the graph, the step limit, the
\* node outcomes and the condition results determine, and all of them when the
\* run has ended; passing the wall-clock limit only cuts that sequence short
\* with GraphRunFailed.
C15_Deterministic ==
    SequentialGraph =>
        LET W == << <<"GraphRunStarted", None>> >> \o Walk(graph.root_node_id, 1, 1)
            T == TypesAndNodes
            timed_out == /\ Done
                         /\ Last(emitted).type = "GraphRunFailed"
                         /\ Last(emitted).error = MaxTimeError(max_execution_time)
        IN  IF timed_out
            THEN IsPrefix(SubSeq(T, 1, Len(T) - 1), W)
            ELSE IsPrefix(T, W) /\ (Done => T = W)

\* a run of S3 that took two outcomes and the results of two condition checks
\* has ended
C15_Witness ==
    /\ graph = GraphS3
    /\ Ended("GraphRunSucceeded")
    /\ Len(frames["main"].checked) = 2
    /\ Len(frames["main"].ran) >= 2
    /\ TypesAndNodes = << <<"GraphRunStarted", None>> >> \o Walk(graph.root_node_id, 1, 1)

\* the events traversal t has handed on: to run() for the top-level traversal,
\* to its parent's queue for a worker
HandedOn(t) == IF t = "main" THEN emitted ELSE yielded[t]

\* C16: once a node run by traversal t (top-level or worker) has raised the
\* stop signal, its route state is FAILED with reason "Workflow stopped.", its
\* NodeRunFailed{error = "Workflow stopped."} has been handed on, nothing was
\* thrown, and t creates the route state of no further node: the stopped node
\* stays the last node t ran.
C16_StopEndsBranch ==
    \A t \in Threads : \A i \in DOMAIN frames[t].ran :
        frames[t].ran[i].outcome = Stopped =>
            /\ i = Len(frames[t].ran)
            /\ frames[t].exc = NoExc
            /\ frames[t].route_node_state.node_id = frames[t].ran[i].node_id
            /\ frames[t].route_node_state.status = "failed"
            /\ frames[t].route_node_state.failed_reason = "Workflow stopped."
            /\ \E j \in DOMAIN HandedOn(t) :
                 /\ HandedOn(t)[j].type = "NodeRunFailed"
                 /\ HandedOn(t)[j].node_id = frames[t].ran[i].node_id
                 /\ HandedOn(t)[j].error = "Workflow stopped."

\* the nodes that completed with SUCCEEDED, in any traversal
CompletedNodes ==
    UNION {{frames[t].ran[i].node_id :
               i \in {j \in DOMAIN frames[t].ran : frames[t].ran[j].outcome = Succeeded}} :
           t \in Threads}
RECURSIVE TokenSum(_)
TokenSum(nodes) ==
    IF nodes = {} THEN 0
    ELSE LET n == CHOOSE x \in nodes : TRUE IN graph.node_tokens[n] + TokenSum(nodes \ {n})

\* C17: when the run has ended with GraphRunSucceeded, total_tokens is the sum
\* of the tokens reported by the nodes that completed with SUCCEEDED.
C17_TokensSummed ==
    Ended("GraphRunSucceeded") => total_tokens = TokenSum(CompletedNodes)

StepsText == "Max steps " \o ToString(max_execution_steps) \o " reached."
TimeText == "Max execution time " \o ToString(max_execution_time) \o "s reached."
\* the errors of the nodes the graph holds no config for
ConfigTexts ==
    {"Node " \o n \o " config not found." :
        n \in (DOMAIN graph.node_parallel_mapping) \ (DOMAIN graph.node_type)}
IsBranchFailed(e) == e.type = "ParallelBranchRunFailed"
\* the traversal's error was raised by a check at the top of an iteration,
\* before the next node's route state was created
RaisedAtCheck(t) ==
    /\ frames[t].exc.kind = "GraphRunFailedError"
    /\ frames[t].route_node_state.node_id # frames[t].next_node_id
\* the traversal's error was raised while it drained its fan-out's queue
RaisedAtDrain(t) ==
    /\ frames[t].pc = "raise"
    /\ frames[t].threads # <<>>
    /\ frames[t].route_node_state.node_id = frames[t].next_node_id

\* C18: a limit check fails with the limit's exact text, and only when the
\* limit is passed; a worker that ends with a GraphRunFailedError has put
\* ParallelBranchRunFailed with that error last; a traversal whose drain took
\* the ParallelBranchRunFailed of one of its own branches raises its error
\* unchanged; and a run in which no node failed and a ParallelBranchRunFailed was
\* emitted ends, right after the ParallelBranchRunFailed of a top-level branch,
\* with GraphRunFailed carrying that event's error, which is one of the two
\* limit texts (or the error of a node without config).
C18_LimitErrors ==
    /\ \A t \in Threads :
         (RaisedAtCheck(t) /\ frames[t].next_node_id \in DOMAIN graph.node_type) =>
              /\ frames[t].exc.error \in {StepsText, TimeText}
              /\ frames[t].exc.error = StepsText => node_run_steps > max_execution_steps
              /\ frames[t].exc.error = TimeText => clock > max_execution_time
    /\ \A w \in Workers :
         (frames[w].pc = "done" /\ frames[w].exc.kind = "GraphRunFailedError") =>
              Last(yielded[w]) = ParallelBranchRunFailedEvent(frames[w].in_parallel_id, w,
                                                              frames[w].exc.error)
    /\ \A t \in Threads :
         RaisedAtDrain(t) =>
              /\ IsBranchFailed(Last(HandedOn(t)))
              /\ Last(HandedOn(t)).parallel_id = frames[t].parallel_id
              /\ frames[t].exc = GraphRunFailedError(Last(HandedOn(t)).error)
    /\ (/\ Done
        /\ \A i \in DOMAIN emitted : emitted[i].type # "NodeRunFailed"
        /\ \E i \in DOMAIN emitted : IsBranchFailed(emitted[i])) =>
              /\ IsBranchFailed(emitted[Len(emitted) - 1])
              /\ emitted[Len(emitted) - 1].parallel_id = frames["main"].parallel_id
              /\ Last(emitted) = GraphRunFailedEvent(emitted[Len(emitted) - 1].error)
              /\ Last(emitted).error \in {StepsText, TimeText} \cup ConfigTexts

\* the step limit failed two fan-outs deep: the inner branch's, then the outer
\* branch's ParallelBranchRunFailed and the terminal event carry its text
C18_Witness ==
    /\ graph = GraphDeep
    /\ Done
    /\ Last(emitted).error = StepsText
    /\ emitted[Len(emitted) - 1] = ParallelBranchRunFailedEvent("P", "a", StepsText)
    /\ \E i \in DOMAIN emitted : \E w \in {"c", "d"} :
         emitted[i] = ParallelBranchRunFailedEvent("Q", w, StepsText)

\* the NodeRunStarted events traversal t yielded for nodes of its own
OwnStarts(t) ==
    {i \in DOMAIN HandedOn(t) : /\ HandedOn(t)[i].type = "NodeRunStarted"
                                /\ HandedOn(t)[i].route_node_state.id[1] = t}
\* the traversals that fanned out into group p
Parents(p) == {t \in Threads : frames[t].threads # <<>> /\ frames[t].parallel_id = p}
\* the NodeRunStarted events of node_id that traversal t yielded for itself
StartsOf(t, node_id) == {i \in OwnStarts(t) : HandedOn(t)[i].node_id = node_id}

\* C19: a worker started with in_parallel_id = P instantiates and starts only
\* nodes mapped to P, so never the join node of P nor a node after it; the join
\* node of P is started by nobody but the traversal that fanned out into P, at
\* most once, and exactly once when that traversal went on past the fan-out
\* and the run succeeded.
C19_ReentryGuard ==
    /\ \A w \in Workers :
         /\ \A i \in OwnStarts(w) :
              node_parallel_mapping_get(yielded[w][i].node_id) = frames[w].in_parallel_id
         /\ frames[w].route_node_state.node_id # None =>
              node_parallel_mapping_get(frames[w].route_node_state.node_id)
                  = frames[w].in_parallel_id
    /\ \A p \in ParallelIds :
         LET join == graph.parallel_mapping[p].end_to_node_id IN
         join # None =>
             /\ \A t \in Threads :
                  /\ StartsOf(t, join) # {} => t \in Parents(p)
                  /\ Cardinality(StartsOf(t, join)) <= 1
             /\ Ended("GraphRunSucceeded") =>
                  \A t \in Parents(p) : Cardinality(StartsOf(t, join)) = 1

\* both branches of unequal length have ended at the guard, each after the
\* nodes of its group, and the parent has started the join node
C19_Witness ==
    /\ graph = GraphChain
    /\ \A w \in {"a", "b"} : frames[w].pc = "done" /\ frames[w].exc = NoExc
    /\ \E i \in OwnStarts("a") : yielded["a"][i].node_id = "a2"
    /\ StartsOf("main", "end") # {}
    /\ Ended("GraphRunSucceeded")

\* the run has emitted its terminal event, no traversal waits in a drain loop,
\* and every worker that was started has ended, ParallelBranchRunSucceeded or
\* ParallelBranchRunFailed being the last thing it put on the queue
Quiet ==
    /\ Done
    /\ IsTerminal(Last(emitted))
    /\ \A t \in Threads : frames[t].pc \in {"idle", "done", "closed"}
    /\ \A w \in Workers : frames[w].pc = "done" => IsBranchEnd(Last(yielded[w]))

\* C20: whatever the interleaving, run() eventually emits its terminal event,
\* every traversal that entered the drain loop of a fan-out has left it, and
\* every worker has posted ParallelBranchRunSucceeded or ParallelBranchRunFailed
\* and ended; from then on it stays so.
C20_Termination == <>[]Quiet

\* the drain loop has taken the sentinel after the ParallelBranchRunSucceeded
\* of both workers, the threads are joined, and the run has ended
C20_Witness ==
    /\ graph = GraphChain
    /\ Quiet
    /\ Ended("GraphRunSucceeded")
    /\ frames["main"].succeeded_count = Len(frames["main"].threads)
    /\ \A w \in {"a", "b"} : Last(yielded[w]).type = "ParallelBranchRunSucceeded"

\* a drain loop has ended by raising the error of a failed branch while another
\* drain loop waited on it, and all threads have ended
C20_WitnessFailed ==
    /\ graph = GraphDeep
    /\ Quiet
    /\ Ended("GraphRunFailed")
    /\ frames["a"].threads # <<>>
    /\ \A w \in {"a", "b", "c", "d"} : frames[w].pc = "done"

\* a step of the thread of traversal t other than a turn of its drain loop
ThreadStep(t) ==
    \/ WorkerBegin(t) \/ LoopCheck(t) \/ ReadSteps(t) \/ WriteSteps(t) \/ SetIndex(t)
    \/ YieldStarted(t) \/ RunNode(t) \/ AddTokens(t) \/ Advance(t) \/ Return(t) \/ Raise(t)
Running(t) ==
    frames[t].pc \in {"begin", "loop", "started", "add", "index", "yield_started", "node",
                      "tokens", "record", "return", "raise"}

\* C21: once run() has returned, the top-level traversal is over (it neither
\* drains nor joins any more), whatever the workers are doing; and a worker that
\* has not ended yet can still take its next step: begin, instantiate and start
\* its node, write node_run_steps, write total_tokens and the variable pool.
C21_Abandoned ==
    Done =>
        /\ frames["main"].pc \in {"done", "closed"}
        /\ \A w \in Workers :
             /\ Running(w) => ENABLED ThreadStep(w)
             /\ frames[w].pc = "add" => ENABLED WriteSteps(w)
             /\ frames[w].pc = "tokens" => ENABLED AddTokens(w)

\* branch A has failed and GraphRunFailed is emitted, while sibling B has its
\* node instantiated and is in the middle of node_run_steps += 1, with its
\* NodeRunStarted, its tokens and its outputs still to come
C21_Witness ==
    /\ graph = GraphS4
    /\ Ended("GraphRunFailed")
    /\ \E i \in DOMAIN emitted : emitted[i].type = "NodeRunFailed" /\ emitted[i].node_id = "a"
    /\ frames["b"].pc = "add"
    /\ frames["b"].route_node_state.node_id = "b"
    /\ \A i \in DOMAIN yielded["b"] : yielded["b"][i].type # "NodeRunStarted"
    /\ variable_pool = EmptyPool
    /\ total_tokens = 0

\* the node a broken graph cannot instantiate, or whose fan-out it cannot
\* start, and the message of the error
Unrunnable == IF graph \in {GraphNoConfig, GraphNoClass} THEN {"x"} ELSE {"a", "b"}
ConfigMessage ==
    CASE graph = GraphNoConfig -> "Node x config not found."
      [] graph = GraphNoClass -> "Node x type ghost not found."
      [] graph = GraphNoParallel -> "Node a related parallel not found."
      [] OTHER -> "Parallel P not found."

\* C22: in a graph whose next node has no config, or a type without node
\* class, or whose first fan-out target is in no parallel group, or in a group
\* the graph does not hold, no NodeRunStarted and no NodeRunFailed is ever
\* emitted for the node(s) concerned, no worker is ever started, the traversal
\* ends with GraphRunFailedError, and a run that got as far as that node,
\* within the step limit, ends with GraphRunFailed carrying the message.
C22_ConfigErrors ==
    graph \in BrokenGraphs =>
        /\ \A i \in DOMAIN emitted :
             emitted[i].type \in {"NodeRunStarted", "NodeRunFailed"} =>
                 emitted[i].node_id \notin Unrunnable
        /\ \A w \in Workers : frames[w] = IdleFrame /\ yielded[w] = <<>>
        /\ frames["main"].threads = <<>>
        /\ frames["main"].next_node_id \in Unrunnable =>
             frames["main"].pc \in {"loop", "raise", "done"}
        /\ (frames["main"].pc \in {"raise", "done"}
              /\ frames["main"].exc.error \notin {StepsText, TimeText}) =>
             frames["main"].exc = GraphRunFailedError(ConfigMessage)
        /\ Done =>
             /\ Last(emitted).type = "GraphRunFailed"
             /\ Last(emitted).error \in {ConfigMessage, StepsText}
             /\ emitted[Len(emitted) - 1].type = "NodeRunSucceeded" =>
                  Last(emitted) = GraphRunFailedEvent(ConfigMessage)

\* the fan-out whose first target is in no parallel group has ended the run
\* after the Start node, with the message naming that target
C22_Witness ==
    /\ graph = GraphNoParallel
    /\ Done
    /\ Len(emitted) = 4
    /\ emitted[3].type = "NodeRunSucceeded" /\ emitted[3].node_id = "start"
    /\ emitted[4] = GraphRunFailedEvent("Node a related parallel not found.")

NoNodeFailed == \A i \in DOMAIN emitted : emitted[i].type # "NodeRunFailed"
\* the results of the run conditions the top-level traversal checked last
LastChecked == Last(frames["main"].checked)
\* the top-level traversal has run node n to SUCCEEDED and there is no node to
\* go on with: n is an End node, has no outgoing edge, has one edge whose
\* condition checked false or several of which no condition checked true, or n
\* fanned out into a group without join node and all its branches succeeded
PathOver ==
    LET f == frames["main"]
        n == f.route_node_state.node_id
        edges == edges_of(n)
    IN  /\ n # None /\ n = f.next_node_id
        /\ f.route_node_state.status = "succeeded"
        /\ \/ graph.node_type[n] = "end"
           \/ edges = <<>>
           \/ /\ Len(edges) = 1 /\ edges[1].run_condition
              /\ f.checked # <<>> /\ LastChecked.node_id = n /\ ~LastChecked.results[1]
           \/ /\ Len(edges) > 1 /\ conditional(edges) # {}
              /\ f.checked # <<>> /\ LastChecked.node_id = n
              /\ \A i \in conditional(edges) : ~LastChecked.results[i]
           \/ /\ f.threads # <<>>
              /\ graph.parallel_mapping[f.parallel_id].end_to_node_id = None
              /\ f.succeeded_count = Len(f.threads)

\* C23: when the path of the top-level traversal is over in one of these ways
\* and no NodeRunFailed was emitted, the traversal has no error, no
\* GraphRunFailed is emitted, and the run, once ended, has ended with
\* GraphRunSucceeded carrying runtime.outputs.
C23_PathEndIsSuccess ==
    (PathOver /\ NoNodeFailed) =>
        /\ frames["main"].exc = NoExc
        /\ frames["main"].pc \in {"record", "return", "drain", "join", "done"}
        /\ \A i \in DOMAIN emitted : emitted[i].type # "GraphRunFailed"
        /\ Done => Last(emitted) = GraphRunSucceededEvent(outputs)

\* both branches of the group without join node have succeeded and the run
\* has ended with GraphRunSucceeded
C23_Witness ==
    /\ graph = GraphNoJoin
    /\ PathOver
    /\ frames["main"].threads # <<>>
    /\ Ended("GraphRunSucceeded")

\* the same for a node without outgoing edges, with the outputs it left
C23_WitnessOpen ==
    /\ graph = GraphOpen
    /\ PathOver
    /\ Done
    /\ Last(emitted) = GraphRunSucceededEvent([k \in {"answer"} |-> S_foo])

NodeEventTypes ==
    {"NodeRunStarted", "NodeRunStreamChunk", "NodeRunRetrieverResource", "NodeRunSucceeded",
     "NodeRunFailed"}
\* the traversal that made node event e: the first part of the route state's id
MadeBy(e) == e.route_node_state.id[1]
\* the tags a node event made by traversal t has to carry
Tagged(e, t) ==
    IF t = "main"
    THEN e.parallel_id = None /\ e.parallel_start_node_id = None
    ELSE /\ e.parallel_id = frames[frames[t].parent].parallel_id
         /\ e.parallel_id = graph.node_parallel_mapping[t]
         /\ e.parallel_start_node_id = t

IsNodeEnd(e) == e.type \in {"NodeRunSucceeded", "NodeRunFailed"}
\* in stream s, nothing of the same node invocation follows its
\* NodeRunSucceeded or NodeRunFailed
EndsInvocation(s) ==
    \A i \in DOMAIN s : IsNodeEnd(s[i]) =>
        \A j \in DOMAIN s :
            (j > i /\ s[j].type \in NodeEventTypes) =>
                s[j].route_node_state.id # s[i].route_node_state.id

\* C25: in the emitted stream and in what each worker put on its queue, a
\* NodeRunSucceeded or NodeRunFailed is the last node event with its
\* route_node_state.id: no second NodeRunSucceeded / NodeRunFailed and no
\* NodeRunStreamChunk or NodeRunRetrieverResource of that invocation follows,
\* also when the node had items left to yield.
C25_OneTerminalEvent ==
    /\ EndsInvocation(emitted)
    /\ \A w \in Workers : EndsInvocation(yielded[w])

\* node A yielded its stream chunk and then completed; node B completed with
\* its retriever resource item still to come, and its branch has ended without
\* that item
C25_Witness ==
    /\ graph = GraphStream
    /\ \E i, j \in DOMAIN yielded["a"] :
         /\ i < j
         /\ yielded["a"][i].type = "NodeRunStreamChunk"
         /\ yielded["a"][j].type = "NodeRunSucceeded"
    /\ frames["b"].pc = "done"
    /\ \E i \in DOMAIN yielded["b"] : yielded["b"][i].type = "NodeRunSucceeded"
    /\ \A i \in DOMAIN yielded["b"] : yielded["b"][i].type # "NodeRunRetrieverResource"

\* all branches of the fan-out of traversal t have succeeded
FanInComplete(t) ==
    frames[t].threads # <<>> /\ frames[t].succeeded_count = Len(frames[t].threads)
\* the events of stream s that worker w put on the queue, in the order of s
ForwardedOf(s, w) == SelectSeq(s, LAMBDA e : e \in Range(yielded[w]))

\* C26: the sentinel is on the queue of a fan-out only when the
\* ParallelBranchRunSucceeded of every branch has been taken off and then it
\* is the only thing there; and once all branches of a fan-out have succeeded,
\* every event a worker of it put on the queue has been yielded on by the
\* draining traversal, in the worker's order, and after the drain loop (at the
\* join and from then on) the queue is empty.
C26_NothingLost ==
    \A t \in Threads :
        /\ (\E i \in DOMAIN frames[t].q : frames[t].q[i] = Sentinel) =>
             FanInComplete(t) /\ frames[t].q = <<Sentinel>>
        /\ FanInComplete(t) =>
             /\ \A i \in DOMAIN frames[t].threads :
                  LET w == frames[t].threads[i] IN
                  /\ frames[w].pc = "done"
                  /\ Last(yielded[w]).type = "ParallelBranchRunSucceeded"
                  /\ ForwardedOf(HandedOn(t), w) = yielded[w]
             /\ frames[t].pc # "drain" => frames[t].q = <<>>

\* the join node has started after a fan-out whose branches put three and
\* five events on the queue, all of them emitted before it
C26_Witness ==
    /\ graph = GraphChain
    /\ FanInComplete("main")
    /\ Len(yielded["a"]) > Len(yielded["b"])
    /\ \E i \in DOMAIN emitted :
         /\ emitted[i].type = "NodeRunStarted" /\ emitted[i].node_id = "end"
         /\ \A j \in DOMAIN emitted : emitted[j] \in Range(yielded["a"] \o yielded["b"]) => j < i
    /\ frames["main"].q = <<>>

\* the step completes the node of traversal t with a state that is not SUCCEEDED
FailsNode(t) == frames[t].pc = "node" /\ frames'[t].route_node_state.status = "failed"
\* the step completes the node of traversal t with SUCCEEDED
SucceedsNode(t) ==
    /\ frames[t].pc \in {"node", "tokens"}
    /\ frames'[t].pc = "record"
    /\ frames'[t].route_node_state.status = "succeeded"
NewlyEmitted == {emitted'[i] : i \in (Len(emitted) + 1) .. Len(emitted')}

FailedNodeFrame ==
    /\ \A t \in Threads :
         FailsNode(t) => variable_pool' = variable_pool /\ total_tokens' = total_tokens
    /\ (\E e \in NewlyEmitted : e.type = "NodeRunFailed") => outputs' = outputs
    /\ variable_pool' # variable_pool => \E t \in Threads : SucceedsNode(t)
    /\ total_tokens' # total_tokens => \E t \in Threads : SucceedsNode(t)
    /\ outputs' # outputs =>
         NewlyEmitted # {} /\ \A e \in NewlyEmitted : e.type = "NodeRunSucceeded"

\* C27: a step in which a node completes FAILED, is stopped or raises leaves
\* the variable pool and total_tokens as they are, and the step in which its
\* NodeRunFailed is emitted leaves runtime.outputs as they are; the pool and
\* total_tokens change only in a step that completes a node with SUCCEEDED
\* and runtime.outputs only when a NodeRunSucceeded is emitted.
C27_FailedNodeLeavesState == [][FailedNodeFrame]_vars

\* Answer1 has succeeded and Answer2, a node with outputs, has failed: the
\* pool and the outputs hold what Answer1 left and nothing of Answer2
C27_Witness ==
    /\ graph = GraphS2
    /\ Ended("GraphRunFailed")
    /\ emitted[Len(emitted) - 1].type = "NodeRunFailed"
    /\ emitted[Len(emitted) - 1].node_id = "answer2"
    /\ DOMAIN variable_pool = {<<"answer1", "answer">>}
    /\ outputs = [k \in {"answer"} |-> S_foo]

====
